---------------------------- MODULE Spec2Model ----------------------------
(***************************************************************************)
(* TakeYourPillsBot: the reminder scheduler of src/bot.py on top of the    *)
(* storage layer of src/database.py.                                       *)
(*                                                                         *)
(* The model follows the asyncio structure of the program: every `await`   *)
(* on a storage call is a point where another coroutine (a dispatch job,   *)
(* a button handler, the periodic tick) may run and where wall-clock time  *)
(* may pass, so each coroutine is a small process whose steps are the      *)
(* stretches of code between two awaits.                                   *)
(*                                                                         *)
(* Representation.                                                         *)
(*   time      seconds; `now` is the UTC clock, counted from 00:00:00 UTC  *)
(*             of EpochDate.                                               *)
(*   dates     records [year, month, day]; a DATE column holds the         *)
(*             isoformat() text of such a date, which names exactly one    *)
(*             date, so the column holds the record.                       *)
(*   text      a sequence of one-character strings, so that split(':')     *)
(*             and int() are computed as Python computes them.             *)
(*   NULL      SQL NULL / Python None for an integer column is the value   *)
(*             NULL; for a text column it is the empty sequence (the code  *)
(*             only ever tests such a value for truthiness).               *)
(***************************************************************************)
EXTENDS Integers, Sequences, FiniteSets, Bags, TLC

VARIABLES
    now,                  \* the wall clock, UTC seconds since the epoch
    nextTick,             \* when the job queue runs check_reminders next
    nextQuestion,         \* when it runs check_weekend_work_questions next
    ticks,                \* number of check_reminders runs started
    users,                \* table users: user_id -> [timezone]
    reminders,            \* table reminders: id -> row
    reminder_states,      \* table reminder_states: sequence of rows
    weekend_work_status,  \* table weekend_work_status: sequence of rows
    tick,                 \* the running check_reminders coroutine
    wtick,                \* the running check_weekend_work_questions coroutine
    jobs,                 \* the send_reminder_message jobs of the job queue (a bag)
    chat,                 \* the delivered notifications whose button is unpressed
    questions,            \* the delivered work questions whose buttons are unpressed
    delivered,            \* history: the latest delivery for each (reminder, date)
    ackAt,                \* history: when (reminder, date) was first acknowledged
    ev,                   \* history: what the step just taken did
    probe,                \* the arguments and results of a call of the pure rules
    todo,                 \* the settings requests the user makes during the run
    wizard                \* the add-reminder conversation of a user

vars == <<now, nextTick, nextQuestion, ticks, users, reminders, reminder_states,
          weekend_work_status, tick, wtick, jobs, chat, questions, delivered,
          ackAt, ev, probe, todo, wizard>>

-----------------------------------------------------------------------------
(* Bounds of the model *)

\* check_reminders runs at most this many times
MaxTicks == 7

\* within one tick period the clock is also observed this many seconds
\* after the tick instant
MaxLag == 1

\* at most this many send_reminder_message jobs are pending at once
MaxJobs == 2

\* the user leaves at most this many notifications with the button unpressed
MaxButtons == 2

\* the pure rules are called on this many dates after the first one
MaxProbeDays == 31

\* a send_reminder_message job outlives at most this many runs of
\* check_reminders after the one that scheduled it
MaxJobAge == 1

\* the settings requests of a user in one run
MaxRequests == 1

\* the reminders a user adds through the conversation in one run
MaxAdded == 1

-----------------------------------------------------------------------------
(* Program constants *)

REMINDER_INTERVAL == 300

\* run_repeating(check_reminders, interval=60, first=10)
TickInterval == 60

FirstTick == 10

\* post_init: run_repeating(check_weekend_work_questions, interval=60, first=15)
QuestionInterval == 60

FirstQuestion == 15

NULL == 0 - 1

SecondsPerDay == 24 * 3600

\* the date on which the clock reads 0: Friday 29 November 2024
EpochDate == [year |-> 2024, month |-> 11, day |-> 29]

\* the process starts at 20:53:50 UTC of EpochDate (23:53:50 in Moscow)
StartTime == 20 * 3600 + 53 * 60 + 50

-----------------------------------------------------------------------------
(* datetime / calendar: the standard-library arithmetic the code calls *)

IsLeap(y) == (y % 4 = 0) /\ ((y % 100 # 0) \/ (y % 400 = 0))

\* calendar.monthrange(year, month)[1]
DaysInMonth(y, m) ==
    IF m = 2 THEN (IF IsLeap(y) THEN 29 ELSE 28)
    ELSE IF m \in {4, 6, 9, 11} THEN 30 ELSE 31

DaysBeforeYear(y) ==
    (y - 1) * 365 + ((y - 1) \div 4) - ((y - 1) \div 100) + ((y - 1) \div 400)

RECURSIVE DaysBeforeMonth(_, _)
DaysBeforeMonth(y, m) ==
    IF m = 1 THEN 0 ELSE DaysBeforeMonth(y, m - 1) + DaysInMonth(y, m - 1)

\* date.toordinal()
ToOrdinal(d) == DaysBeforeYear(d.year) + DaysBeforeMonth(d.year, d.month) + d.day

\* date.weekday(): Monday = 0 .. Sunday = 6
Weekday(d) == (ToOrdinal(d) + 6) % 7

\* date + timedelta(days=1)
NextDay(d) ==
    IF d.day < DaysInMonth(d.year, d.month)
    THEN [d EXCEPT !.day = d.day + 1]
    ELSE IF d.month < 12
         THEN [year |-> d.year, month |-> d.month + 1, day |-> 1]
         ELSE [year |-> d.year + 1, month |-> 1, day |-> 1]

RECURSIVE AddDays(_, _)
AddDays(d, n) == IF n = 0 THEN d ELSE AddDays(NextDay(d), n - 1)

-----------------------------------------------------------------------------
(* pytz *)

KnownZones == {"UTC", "Europe/Moscow", "America/Sao_Paulo"}

\* the UTC offset of a zone, in seconds (Moscow has had no DST rule since
\* 2014, Sao Paulo none since 2019)
UtcOffset(tz) ==
    CASE tz = "Europe/Moscow"     -> 3 * 3600
      [] tz = "America/Sao_Paulo" -> 0 - 3 * 3600
      [] OTHER                    -> 0

\* a clock that ignores the zone of the user
LocalNow_Utc(t, tz) == t

\* datetime.now(tz): the local wall clock, as seconds since the local
\* midnight that began EpochDate
LocalNow(t, tz) == t + UtcOffset(tz)

\* datetime.date()
DateOf(local) == AddDays(EpochDate, local \div SecondsPerDay)

\* tz.localize(datetime(today.year, today.month, today.day, hour, minute)),
\* on the same scale as LocalNow, for `today` the date of `local`
LocalizeToday(local, hour, minute) ==
    (local \div SecondsPerDay) * SecondsPerDay + hour * 3600 + minute * 60

-----------------------------------------------------------------------------
(* text *)

Digits == <<"0", "1", "2", "3", "4", "5", "6", "7", "8", "9">>

IsDigit(c) == \E i \in 1..10 : Digits[i] = c

DigitValue(c) == (CHOOSE i \in 1..10 : Digits[i] = c) - 1

\* str.split(':'): the pieces between the colons
RECURSIVE Split(_)
Split(s) ==
    IF \A i \in 1..Len(s) : s[i] # ":"
    THEN <<s>>
    ELSE LET k == CHOOSE i \in 1..Len(s) :
                      s[i] = ":" /\ \A j \in 1..(i - 1) : s[j] # ":"
         IN  <<SubSeq(s, 1, k - 1)>> \o Split(SubSeq(s, k + 1, Len(s)))

\* int(text) is defined for a non-empty run of digits; it raises otherwise
IntOk(s) == Len(s) > 0 /\ \A i \in 1..Len(s) : IsDigit(s[i])

RECURSIVE ToInt(_)
ToInt(s) ==
    IF Len(s) = 0 THEN 0
    ELSE 10 * ToInt(SubSeq(s, 1, Len(s) - 1)) + DigitValue(s[Len(s)])

\* hour, minute = map(int, text.split(':')) succeeds
ParseOk(s) ==
    LET parts == Split(s)
    IN  Len(parts) = 2 /\ IntOk(parts[1]) /\ IntOk(parts[2])

ParseHour(s) == ToInt(Split(s)[1])

ParseMinute(s) == ToInt(Split(s)[2])

\* the text "HH:MM"
HHMM(h, m) ==
    <<Digits[(h \div 10) + 1], Digits[(h % 10) + 1], ":",
      Digits[(m \div 10) + 1], Digits[(m % 10) + 1]>>

NoText == <<>>

-----------------------------------------------------------------------------
(* src/database.py: rows *)

\* the row add_reminder inserts for a simple daily reminder: the column
\* defaults of the call in receive_time, active = 1 by the table default
DailyRow(id, user_id, time) ==
    [id |-> id, user_id |-> user_id, time |-> time, frequency |-> "daily",
     day_of_week |-> NULL, day_of_month |-> NULL, month_fallback |-> "last_day",
     daily_mode |-> "simple", even_day_time |-> NoText, odd_day_time |-> NoText,
     weekend_override |-> 0, weekend_time_no_work |-> NoText,
     weekend_time_with_work |-> NoText, ask_work_time |-> HHMM(18, 0),
     active |-> 1]

\* the indices of the reminder_states rows of (reminder_id, reminder_date)
StateRows(tbl, reminder_id, reminder_date) ==
    {i \in 1..Len(tbl) : tbl[i].reminder_id = reminder_id
                         /\ tbl[i].reminder_date = reminder_date}

\* the indices of the weekend_work_status rows of (reminder_id, target_date)
WorkRows(tbl, reminder_id, target_date) ==
    {i \in 1..Len(tbl) : tbl[i].reminder_id = reminder_id
                         /\ tbl[i].target_date = target_date}

\* cursor.fetchone(): the first row of a selection, in rowid order
FetchOne(tbl, rows) ==
    IF rows = {} THEN <<>>
    ELSE <<tbl[CHOOSE i \in rows : \A j \in rows : i <= j]>>

-----------------------------------------------------------------------------
(* src/database.py: queries.  A query that returns Optional[dict] returns   *)
(* here the empty sequence for None and <<row>> for a row.                  *)

\* get_or_create_user: the users table afterwards
get_or_create_user(tbl, user_id) ==
    IF user_id \in DOMAIN tbl THEN tbl
    ELSE [u \in DOMAIN tbl \cup {user_id} |->
              IF u = user_id THEN [timezone |-> "UTC"] ELSE tbl[u]]

\* set_user_timezone: the users table afterwards
set_user_timezone(tbl, user_id, timezone) ==
    [get_or_create_user(tbl, user_id) EXCEPT ![user_id].timezone = timezone]

\* remove_reminder without the condition on the owner
remove_reminder_AnyOwner(tbl, user_id, reminder_id) ==
    [id \in DOMAIN tbl |->
        IF id = reminder_id THEN [tbl[id] EXCEPT !.active = 0] ELSE tbl[id]]

\* remove_reminder: UPDATE reminders SET active = 0 WHERE id = ? AND
\* user_id = ?; the reminders table afterwards
remove_reminder(tbl, user_id, reminder_id) ==
    [id \in DOMAIN tbl |->
        IF id = reminder_id /\ tbl[id].user_id = user_id
        THEN [tbl[id] EXCEPT !.active = 0] ELSE tbl[id]]

\* get_user_timezone: the value returned
get_user_timezone(tbl, user_id) == get_or_create_user(tbl, user_id)[user_id].timezone

RECURSIVE JoinActive(_, _, _)
JoinActive(rem, usr, ids) ==
    IF ids = {} THEN <<>>
    ELSE LET id == CHOOSE i \in ids : \A j \in ids : i <= j
             r  == rem[id]
         IN  (IF r.active = 1 /\ r.user_id \in DOMAIN usr
              THEN <<[reminder |-> r, timezone |-> usr[r.user_id].timezone]>>
              ELSE <<>>)
             \o JoinActive(rem, usr, ids \ {id})

\* SELECT r.*, u.timezone FROM reminders r JOIN users u ... WHERE r.active = 1
get_all_active_reminders(rem, usr) == JoinActive(rem, usr, DOMAIN rem)

\* cursor.fetchone() of SELECT * FROM reminder_states WHERE reminder_id = ?
\* AND reminder_date = ?
get_reminder_state(tbl, reminder_id, reminder_date) ==
    FetchOne(tbl, StateRows(tbl, reminder_id, reminder_date))

is_reminder_acknowledged(tbl, reminder_id, reminder_date) ==
    LET state == get_reminder_state(tbl, reminder_id, reminder_date)
    IN  Len(state) # 0 /\ state[1].acknowledged = 1

\* an acknowledgement of every date of the reminder
acknowledge_reminder_AnyDate(tbl, reminder_id, reminder_date) ==
    [i \in 1..Len(tbl) |->
        IF tbl[i].reminder_id = reminder_id
        THEN [tbl[i] EXCEPT !.acknowledged = 1] ELSE tbl[i]]

\* UPDATE reminder_states SET acknowledged = 1 WHERE reminder_id = ? AND
\* reminder_date = ?
acknowledge_reminder(tbl, reminder_id, reminder_date) ==
    [i \in 1..Len(tbl) |->
        IF tbl[i].reminder_id = reminder_id /\ tbl[i].reminder_date = reminder_date
        THEN [tbl[i] EXCEPT !.acknowledged = 1] ELSE tbl[i]]

\* create_or_update_reminder_state, the UPDATE branch (acknowledged defaults
\* to False)
UpdateState(tbl, reminder_id, reminder_date, utcnow, acknowledged) ==
    [i \in 1..Len(tbl) |->
        IF tbl[i].reminder_id = reminder_id /\ tbl[i].reminder_date = reminder_date
        THEN [tbl[i] EXCEPT !.last_sent = utcnow, !.acknowledged = acknowledged]
        ELSE tbl[i]]

\* UNIQUE(reminder_id, reminder_date): whether an INSERT of the key is refused
UniqueViolated(tbl, reminder_id, reminder_date) ==
    \E i \in 1..Len(tbl) :
        tbl[i].reminder_id = reminder_id /\ tbl[i].reminder_date = reminder_date

\* an INSERT that stores the row as acknowledged
InsertState_Acknowledged(tbl, user_id, reminder_id, reminder_date, utcnow, acknowledged) ==
    Append(tbl, [user_id |-> user_id, reminder_id |-> reminder_id,
                 reminder_date |-> reminder_date, last_sent |-> utcnow,
                 acknowledged |-> 1])

\* create_or_update_reminder_state, the INSERT branch, when it is accepted
InsertState(tbl, user_id, reminder_id, reminder_date, utcnow, acknowledged) ==
    Append(tbl, [user_id |-> user_id, reminder_id |-> reminder_id,
                 reminder_date |-> reminder_date, last_sent |-> utcnow,
                 acknowledged |-> acknowledged])

\* get_weekend_work_status finding no row whatever the table holds
get_weekend_work_status_None(tbl, reminder_id, target_date) == <<>>

get_weekend_work_status(tbl, reminder_id, target_date) ==
    FetchOne(tbl, WorkRows(tbl, reminder_id, target_date))

\* the row create_work_question inserts: has_work is left NULL, responded = 0
QuestionRow(user_id, reminder_id, target_date, utcnow) ==
    [user_id |-> user_id, reminder_id |-> reminder_id, target_date |-> target_date,
     has_work |-> NULL, asked_at |-> utcnow, responded |-> 0]

\* set_weekend_work_status: the table afterwards.  An existing row of the key
\* is updated, otherwise a row is inserted; either way responded = 1 and
\* has_work = int(has_work)
set_weekend_work_status(tbl, user_id, reminder_id, target_date, has_work, utcnow) ==
    IF WorkRows(tbl, reminder_id, target_date) # {}
    THEN [i \in 1..Len(tbl) |->
             IF i \in WorkRows(tbl, reminder_id, target_date)
             THEN [tbl[i] EXCEPT !.has_work = has_work, !.responded = 1]
             ELSE tbl[i]]
    ELSE Append(tbl, [QuestionRow(user_id, reminder_id, target_date, utcnow)
                          EXCEPT !.has_work = has_work, !.responded = 1])

RECURSIVE SelectSeq2(_, _)
\* the rows of a joined selection that pass a WHERE clause, in rowid order
SelectSeq2(rows, keep) ==
    IF rows = <<>> THEN <<>>
    ELSE (IF keep[Head(rows).reminder.id] THEN <<Head(rows)>> ELSE <<>>)
         \o SelectSeq2(Tail(rows), keep)

\* SELECT r.*, u.timezone FROM reminders r JOIN users u ... WHERE r.active = 1
\* AND r.frequency = 'daily' AND r.daily_mode = 'advanced' AND
\* r.weekend_override = 1
get_advanced_daily_reminders_needing_questions(rem, usr) ==
    SelectSeq2(JoinActive(rem, usr, DOMAIN rem),
               [id \in DOMAIN rem |-> /\ rem[id].frequency = "daily"
                                      /\ rem[id].daily_mode = "advanced"
                                      /\ rem[id].weekend_override = 1])

-----------------------------------------------------------------------------
(* src/database.py: the recurrence rule *)

\* the rule with the weekday, the length of the month and the fallback policy
\* it works with given from outside
TriggerWith(reminder, check_date, weekday, last_day_of_month, month_fallback) ==
    IF reminder.frequency = "daily" THEN TRUE
    ELSE IF reminder.frequency = "weekly"
    THEN IF reminder.day_of_week = NULL THEN TRUE
         ELSE weekday = reminder.day_of_week
    ELSE IF reminder.frequency = "monthly"
    THEN IF reminder.day_of_month = NULL THEN TRUE
         ELSE IF reminder.day_of_month <= last_day_of_month
              THEN check_date.day = reminder.day_of_month
              ELSE IF month_fallback = "last_day"
                   THEN check_date.day = last_day_of_month
                   ELSE FALSE
    ELSE FALSE

\* a rule that counts the weekdays from 1 (Monday) to 7 (Sunday)
should_reminder_trigger_Iso(reminder, check_date) ==
    TriggerWith(reminder, check_date, Weekday(check_date) + 1,
                DaysInMonth(check_date.year, check_date.month), reminder.month_fallback)

\* a rule that takes every month to have 31 days
should_reminder_trigger_Fixed31(reminder, check_date) ==
    TriggerWith(reminder, check_date, Weekday(check_date), 31, reminder.month_fallback)

\* a rule that ignores the fallback policy
should_reminder_trigger_NoSkip(reminder, check_date) ==
    TriggerWith(reminder, check_date, Weekday(check_date),
                DaysInMonth(check_date.year, check_date.month), "last_day")

\* a rule that takes every month to have 28 days
should_reminder_trigger_Fixed28(reminder, check_date) ==
    TriggerWith(reminder, check_date, Weekday(check_date), 28, reminder.month_fallback)

should_reminder_trigger(reminder, check_date) ==
    IF reminder.frequency = "daily" THEN TRUE
    ELSE IF reminder.frequency = "weekly"
    THEN IF reminder.day_of_week = NULL THEN TRUE
         ELSE Weekday(check_date) = reminder.day_of_week
    ELSE IF reminder.frequency = "monthly"
    THEN IF reminder.day_of_month = NULL THEN TRUE
         ELSE LET last_day_of_month ==
                      DaysInMonth(check_date.year, check_date.month)
              IN  IF reminder.day_of_month <= last_day_of_month
                  THEN check_date.day = reminder.day_of_month
                  ELSE IF reminder.month_fallback = "last_day"
                       THEN check_date.day = last_day_of_month
                       ELSE FALSE
    ELSE FALSE

\* `a or b` on two texts
OrText(a, b) == IF Len(a) # 0 THEN a ELSE b

\* the resolution with the mode, the day of the month and has_work it works
\* with given from outside
TimeWith(reminder, check_date, daily_mode, day_of_month, has_work) ==
    IF reminder.frequency # "daily" THEN reminder.time
    ELSE IF daily_mode = "simple" THEN reminder.time
    ELSE IF Weekday(check_date) >= 5 /\ reminder.weekend_override # 0
         THEN IF has_work = 1
              THEN OrText(reminder.weekend_time_with_work, reminder.time)
              ELSE OrText(reminder.weekend_time_no_work, reminder.time)
         ELSE IF day_of_month % 2 = 0
              THEN OrText(reminder.even_day_time, reminder.time)
              ELSE OrText(reminder.odd_day_time, reminder.time)

\* a resolution that takes the even-day time on odd days
get_reminder_time_for_date_Parity(reminder, check_date, has_work) ==
    TimeWith(reminder, check_date, reminder.daily_mode, check_date.day + 1, has_work)

\* a resolution that takes an unknown work status for work
get_reminder_time_for_date_Unknown(reminder, check_date, has_work) ==
    TimeWith(reminder, check_date, reminder.daily_mode, check_date.day,
             IF has_work = NULL THEN 1 ELSE has_work)

\* a resolution that ignores the mode of a daily reminder
get_reminder_time_for_date_AnyMode(reminder, check_date, has_work) ==
    TimeWith(reminder, check_date, "advanced", check_date.day, has_work)

\* has_work is NULL (None), 0 (False) or 1 (True)
get_reminder_time_for_date(reminder, check_date, has_work) ==
    IF reminder.frequency # "daily" THEN reminder.time
    ELSE IF reminder.daily_mode = "simple" THEN reminder.time
    ELSE LET is_weekend == Weekday(check_date) >= 5
         IN  IF is_weekend /\ reminder.weekend_override # 0
             THEN IF has_work = NULL
                  THEN OrText(reminder.weekend_time_no_work, reminder.time)
                  ELSE IF has_work = 1
                  THEN OrText(reminder.weekend_time_with_work, reminder.time)
                  ELSE OrText(reminder.weekend_time_no_work, reminder.time)
             ELSE IF check_date.day % 2 = 0
                  THEN OrText(reminder.even_day_time, reminder.time)
                  ELSE OrText(reminder.odd_day_time, reminder.time)

-----------------------------------------------------------------------------
(* The state at process start: post_init has run, the database file holds  *)
(* one user and one reminder that the wizard stored earlier.                *)

NoDate == [year |-> 0, month |-> 0, day |-> 0]

\* what a step did: op names it, what names the exception it raised
Ev(op, what, reminder_id, date, sent, diff) ==
    [op |-> op, what |-> what, reminder_id |-> reminder_id, date |-> date,
     sent |-> sent, diff |-> diff]

NoEv == Ev("none", "", 0, NoDate, FALSE, NULL)

Raised(error, reminder_id, date) == Ev("raised", error, reminder_id, date, FALSE, NULL)

\* no call of the pure rules is under observation
NoProbe ==
    [reminder |-> DailyRow(0, 0, NoText), date |-> NoDate, has_work |-> NULL,
     step |-> 0, evaluated |-> FALSE, due |-> FALSE, time |-> NoText, used |-> NoText]

\* src/bot.py, lines 52-65: the states of the ConversationHandler that adds a
\* reminder; END is ConversationHandler.END
END == 0 - 1

SELECTING_FREQUENCY == 1

SELECTING_DAY_OF_WEEK == 2

SELECTING_DAY_OF_MONTH == 3

SELECTING_MONTH_FALLBACK == 4

WAITING_FOR_TIME == 5

SELECTING_DAILY_MODE == 6

WAITING_FOR_EVEN_TIME == 7

WAITING_FOR_ODD_TIME == 8

SELECTING_WEEKEND_OVERRIDE == 9

WAITING_FOR_WEEKEND_NO_WORK_TIME == 10

WAITING_FOR_WEEKEND_WITH_WORK_TIME == 11

\* a dict with no key
EmptyDict == [k \in {} |-> 0]

\* the conversation of the user: its state, and context.user_data, where
\* has_reminder tells whether the key 'reminder' is present and reminder is
\* the dict under it.  Here: outside the conversation, no key
NoWizard == [state |-> END, has_reminder |-> FALSE, reminder |-> EmptyDict]

IdleTick == [pc |-> "idle", queue |-> <<>>, now |-> 0, reminder_time |-> NoText]

IdleQuestions == [pc |-> "idle", queue |-> <<>>, tomorrow |-> NoDate, existing |-> FALSE]

\* the keyboard of a work question: both buttons carry the reminder and the
\* date the question is about
QuestionMessage(chat_id, reminder_id, target_date) ==
    [chat_id |-> chat_id, reminder_id |-> reminder_id, target_date |-> target_date]

\* the time check_weekend_work_questions asks at, on the local scale of
\* LocalNow, on the day before EpochDate + days
AskedBefore(reminder, days) ==
    (days - 1) * SecondsPerDay + ParseHour(reminder.ask_work_time) * 3600
                               + ParseMinute(reminder.ask_work_time) * 60

\* the state an earlier run of check_weekend_work_questions has left behind
\* when the bot has been running since before the ask time of EpochDate and
\* the user has not answered yet: the question about the next day, pending
AskedEarlier(reminder, tz) ==
    /\ reminder.frequency = "daily"
    /\ reminder.daily_mode = "advanced"
    /\ reminder.weekend_override = 1
    /\ Weekday(NextDay(EpochDate)) \in {5, 6}
    /\ LocalNow(StartTime, tz) >= AskedBefore(reminder, 1) + QuestionInterval

\* reminders as the wizard stores them (receive_time, save_advanced_daily_reminder)
WeeklyRow(id, user_id, time, day_of_week) ==
    [DailyRow(id, user_id, time) EXCEPT !.frequency = "weekly",
                                        !.day_of_week = day_of_week]

MonthlyRow(id, user_id, time, day_of_month, month_fallback) ==
    [DailyRow(id, user_id, time) EXCEPT !.frequency = "monthly",
                                        !.day_of_month = day_of_month,
                                        !.month_fallback = month_fallback]

AdvancedRow(id, user_id, even, odd, weekend_override, no_work, with_work) ==
    [DailyRow(id, user_id, even) EXCEPT !.daily_mode = "advanced",
                                        !.even_day_time = even,
                                        !.odd_day_time = odd,
                                        !.weekend_override = weekend_override,
                                        !.weekend_time_no_work = no_work,
                                        !.weekend_time_with_work = with_work]

InitReminders ==
    {DailyRow(1, 1, HHMM(20, 54)), DailyRow(1, 1, HHMM(23, 50)),
     DailyRow(1, 1, HHMM(23, 55)),
     WeeklyRow(1, 1, HHMM(23, 50), 4), WeeklyRow(1, 1, HHMM(23, 50), 5),
     MonthlyRow(1, 1, HHMM(0, 0), 31, "last_day"),
     MonthlyRow(1, 1, HHMM(0, 0), 31, "skip"),
     AdvancedRow(1, 1, HHMM(0, 1), HHMM(23, 59), 1, HHMM(0, 0), HHMM(9, 0))}

Init ==
    /\ now = StartTime
    /\ nextTick = StartTime + FirstTick
    /\ ticks = 0
    /\ nextQuestion = StartTime + FirstQuestion
    /\ \E tz \in KnownZones : users = [u \in {1} |-> [timezone |-> tz]]
    /\ \E r \in InitReminders : reminders = [i \in {1} |-> r]
    /\ reminder_states = <<>>
    /\ \E asked \in BOOLEAN :
          /\ asked => AskedEarlier(reminders[1], users[1].timezone)
          /\ weekend_work_status =
                 IF asked
                 THEN <<QuestionRow(1, 1, NextDay(EpochDate),
                                    AskedBefore(reminders[1], 1)
                                        - UtcOffset(users[1].timezone))>>
                 ELSE <<>>
          /\ questions =
                 IF asked THEN <<QuestionMessage(1, 1, NextDay(EpochDate))>> ELSE <<>>
    /\ tick = IdleTick
    /\ wtick = IdleQuestions
    /\ jobs = EmptyBag
    /\ chat = <<>>
    /\ delivered = {}
    /\ ackAt = {}
    /\ ev = NoEv
    /\ probe = NoProbe
    /\ todo = {}
    /\ wizard = NoWizard

-----------------------------------------------------------------------------
(* The clock *)

\* time passes, second by second, shortly after a tick instant
AdvanceSecond ==
    /\ now >= nextTick - TickInterval
    /\ now < nextTick - TickInterval + MaxLag
    /\ now' = now + 1
    /\ ev' = NoEv
    /\ UNCHANGED <<probe, todo, wizard, nextQuestion, wtick, questions, nextTick, ticks, users, reminders, reminder_states,
                   weekend_work_status, tick, jobs, chat, delivered, ackAt>>

\* time passes until the job queue's next run of check_weekend_work_questions
\* is due; the run of check_reminders that began five seconds earlier and the
\* previous run of check_weekend_work_questions have ended by then
AdvanceToQuestion ==
    /\ now < nextQuestion
    /\ nextQuestion < nextTick
    /\ tick.pc = "idle"
    /\ wtick.pc = "idle"
    /\ now' = nextQuestion
    /\ ev' = NoEv
    /\ UNCHANGED <<probe, todo, wizard, nextQuestion, wtick, questions, nextTick, ticks, users,
                   reminders, reminder_states, weekend_work_status, tick, jobs,
                   chat, delivered, ackAt>>

\* time passes until the job queue's next run of check_reminders is due; the
\* running check_reminders and the older jobs have ended by then
AdvanceToTick ==
    /\ now < nextTick
    /\ nextTick < nextQuestion
    /\ ticks < MaxTicks
    /\ tick.pc = "idle"
    /\ wtick.pc = "idle"
    /\ \A job \in BagToSet(jobs) : ticks - job.born < MaxJobAge
    /\ now' = nextTick
    /\ ev' = NoEv
    /\ UNCHANGED <<probe, todo, wizard, nextQuestion, wtick, questions, nextTick, ticks, users, reminders, reminder_states,
                   weekend_work_status, tick, jobs, chat, delivered, ackAt>>

-----------------------------------------------------------------------------
(* src/bot.py: check_reminders, one step per stretch between two awaits *)

\* pytz.timezone(user_tz_str), UTC on UnknownTimeZoneError
TickZone(tz) == IF tz \in KnownZones THEN tz ELSE "UTC"

TickReminder == Head(tick.queue).reminder

\* `now` of the iteration, as local seconds
TickLocal == LocalNow(tick.now, TickZone(Head(tick.queue).timezone))

TickToday == DateOf(TickLocal)

\* `continue`, or the end of the loop body: on to the next reminder
TickContinue ==
    [IdleTick EXCEPT !.queue = Tail(tick.queue),
                     !.pc = IF Len(tick.queue) > 1 THEN "eval" ELSE "idle"]

\* a comparison that forgets the minute of the reminder
TimeReached_HourOnly(local, reminder_time) ==
    local >= LocalizeToday(local, ParseHour(reminder_time), 0)

\* now >= reminder_datetime
TimeReached(local, reminder_time) ==
    local >= LocalizeToday(local, ParseHour(reminder_time), ParseMinute(reminder_time))

\* a decision that waits longer than the interval
ShouldSend_Strict(state, now_utc) ==
    IF Len(state) = 0 THEN TRUE
    ELSE IF state[1].last_sent # NULL
         THEN now_utc - state[1].last_sent > REMINDER_INTERVAL
         ELSE TRUE

\* a decision that sends nothing for a date without a row
ShouldSend_NoFirst(state, now_utc) ==
    IF Len(state) = 0 THEN FALSE
    ELSE IF state[1].last_sent # NULL
         THEN now_utc - state[1].last_sent >= REMINDER_INTERVAL
         ELSE TRUE

\* a decision that sends once for a date and never again
ShouldSend_Once(state, now_utc) == Len(state) = 0

\* lines 1191-1203: the re-notification decision on the row read
ShouldSend(state, now_utc) ==
    IF Len(state) = 0 THEN TRUE
    ELSE IF state[1].last_sent # NULL
         THEN now_utc - state[1].last_sent >= REMINDER_INTERVAL
         ELSE TRUE

\* reminders = await get_all_active_reminders()
check_reminders_start ==
    /\ tick.pc = "idle"
    /\ now = nextTick
    /\ ticks < MaxTicks
    /\ LET rows == get_all_active_reminders(reminders, users)
       IN  tick' = [IdleTick EXCEPT !.queue = rows,
                                    !.pc = IF Len(rows) > 0 THEN "eval" ELSE "idle"]
    /\ nextTick' = nextTick + TickInterval
    /\ ticks' = ticks + 1
    /\ ev' = NoEv
    /\ UNCHANGED <<probe, todo, wizard, nextQuestion, wtick, questions, now, users, reminders, reminder_states, weekend_work_status,
                   jobs, chat, delivered, ackAt>>

\* lines 1162-1175: the time check_reminders uses for the reminder on `today`,
\* has_work being what lines 1165-1171 made of the work status
ResolvedTime(reminder, today, has_work) ==
    IF reminder.frequency = "daily" /\ reminder.daily_mode = "advanced"
    THEN get_reminder_time_for_date(reminder, today, has_work)
    ELSE reminder.time

\* a variant that takes a question that was asked for an answer of "yes"
HasWorkOf_Asked(work_status) ==
    IF Len(work_status) # 0
    THEN (IF work_status[1].has_work = 0 THEN 0 ELSE 1)
    ELSE NULL

\* lines 1170-1171: has_work of the row read, None unless it is responded
HasWorkOf(work_status) ==
    IF Len(work_status) # 0 /\ work_status[1].responded # 0
    THEN (IF work_status[1].has_work \in {NULL, 0} THEN 0 ELSE 1)
    ELSE NULL

\* lines 1177-1183 for the resolved time: skip a reminder without a time, fail
\* on a time that does not parse, else go on to the acknowledged check of an
\* iteration that read the clock at t
TickAfterTime(t, reminder_time, today) ==
    IF Len(reminder_time) = 0
    THEN /\ tick' = TickContinue
         /\ ev' = Ev("no_time", "", TickReminder.id, today, FALSE, NULL)
    ELSE IF ~ParseOk(reminder_time)
    THEN /\ tick' = IdleTick
         /\ ev' = Raised("ValueError", TickReminder.id, today)
    ELSE /\ tick' = [tick EXCEPT !.pc = "ack", !.now = t,
                                 !.reminder_time = reminder_time]
         /\ ev' = NoEv

\* lines 1143-1175: read the clock, apply the recurrence rule, resolve the time
check_reminders_eval ==
    /\ tick.pc = "eval"
    /\ LET reminder == TickReminder
           local    == LocalNow(now, TickZone(Head(tick.queue).timezone))
           today    == DateOf(local)
       IN  IF ~should_reminder_trigger(reminder, today)
           THEN /\ tick' = TickContinue
                /\ ev' = Ev("not_due", "", reminder.id, today, FALSE, NULL)
           ELSE IF /\ reminder.frequency = "daily" /\ reminder.daily_mode = "advanced"
                   /\ Weekday(today) >= 5 /\ reminder.weekend_override # 0
           THEN /\ tick' = [tick EXCEPT !.pc = "work", !.now = now]
                /\ ev' = NoEv
           ELSE TickAfterTime(now, ResolvedTime(reminder, today, NULL), today)
    /\ UNCHANGED <<probe, todo, wizard, nextQuestion, wtick, questions, now, nextTick, ticks, users, reminders, reminder_states,
                   weekend_work_status, jobs, chat, delivered, ackAt>>

\* lines 1169-1173: work_status = await get_weekend_work_status(reminder_id, today)
check_reminders_work ==
    /\ tick.pc = "work"
    /\ LET work_status == get_weekend_work_status(weekend_work_status,
                                                  TickReminder.id, TickToday)
       IN  TickAfterTime(tick.now,
                         ResolvedTime(TickReminder, TickToday, HasWorkOf(work_status)),
                         TickToday)
    /\ UNCHANGED <<probe, todo, wizard, nextQuestion, wtick, questions, now, nextTick, ticks, users, reminders, reminder_states,
                   weekend_work_status, jobs, chat, delivered, ackAt>>

\* lines 1185-1188: if await is_reminder_acknowledged(...): continue;
\* if now >= reminder_datetime: state = await get_reminder_state(...)
check_reminders_ack ==
    /\ tick.pc = "ack"
    /\ IF is_reminder_acknowledged(reminder_states, TickReminder.id, TickToday)
       THEN /\ tick' = TickContinue
            /\ ev' = Ev("acknowledged", "", TickReminder.id, TickToday, FALSE, NULL)
       ELSE IF TimeReached(TickLocal, tick.reminder_time)
       THEN /\ tick' = [tick EXCEPT !.pc = "state"]
            /\ ev' = NoEv
       ELSE /\ tick' = TickContinue
            /\ ev' = Ev("too_early", "", TickReminder.id, TickToday, FALSE, NULL)
    /\ UNCHANGED <<probe, todo, wizard, nextQuestion, wtick, questions, now, nextTick, ticks, users, reminders, reminder_states,
                   weekend_work_status, jobs, chat, delivered, ackAt>>

\* the job run_once(send_reminder_message, when=0, data=...) creates
NewJob(user_id, reminder_id, time) ==
    [user_id |-> user_id, reminder_id |-> reminder_id, time |-> time,
     pc |-> "tz", today |-> NoDate, existing |-> FALSE, born |-> ticks]

\* lines 1189-1216: decide on the row read and hand the job to the job queue
check_reminders_state ==
    /\ tick.pc = "state"
    /\ LET state == get_reminder_state(reminder_states, TickReminder.id, TickToday)
           should_send == ShouldSend(state, tick.now)
           diff == IF Len(state) # 0 /\ state[1].last_sent # NULL
                   THEN tick.now - state[1].last_sent ELSE NULL
       IN  /\ should_send => BagCardinality(jobs) < MaxJobs
           /\ jobs' = IF should_send
                      THEN jobs (+) SetToBag({NewJob(TickReminder.user_id,
                                                     TickReminder.id,
                                                     tick.reminder_time)})
                      ELSE jobs
           /\ ev' = Ev("decided", "", TickReminder.id, TickToday, should_send, diff)
    /\ tick' = TickContinue
    /\ UNCHANGED <<probe, todo, wizard, nextQuestion, wtick, questions, now, nextTick, ticks, users, reminders, reminder_states,
                   weekend_work_status, chat, delivered, ackAt>>

-----------------------------------------------------------------------------
(* src/bot.py: send_reminder_message, the job run_once(..., when=0) starts *)

\* a failing job that takes every other job of the queue down with it
Finish_All(job) == EmptyBag

Finish(job) == jobs (-) SetToBag({job})

Step(job, next) == (jobs (-) SetToBag({job})) (+) SetToBag({next})

\* lines 985-987: user_tz_str = await get_user_timezone(user_id); today
send_reminder_message_tz(job) ==
    /\ job.pc = "tz"
    /\ users' = get_or_create_user(users, job.user_id)
    /\ LET tz == get_user_timezone(users, job.user_id)
       IN  IF tz \in KnownZones
           THEN /\ jobs' = Step(job, [job EXCEPT !.pc = "ack",
                                                 !.today = DateOf(LocalNow(now, tz))])
                /\ ev' = NoEv
           ELSE /\ jobs' = Finish(job)
                /\ ev' = Raised("UnknownTimeZoneError", job.reminder_id, NoDate)
    /\ UNCHANGED <<probe, todo, wizard, nextQuestion, wtick, questions, now, nextTick, ticks, reminders, reminder_states,
                   weekend_work_status, tick, chat, delivered, ackAt>>

\* lines 989-990: if await is_reminder_acknowledged(reminder_id, today): return
send_reminder_message_ack(job) ==
    /\ job.pc = "ack"
    /\ IF is_reminder_acknowledged(reminder_states, job.reminder_id, job.today)
       THEN /\ jobs' = Finish(job)
            /\ ev' = Ev("job_acknowledged", "", job.reminder_id, job.today, FALSE, NULL)
       ELSE /\ jobs' = Step(job, [job EXCEPT !.pc = "select"])
            /\ ev' = NoEv
    /\ UNCHANGED <<probe, todo, wizard, nextQuestion, wtick, questions, now, nextTick, ticks, users, reminders, reminder_states,
                   weekend_work_status, tick, chat, delivered, ackAt>>

\* create_or_update_reminder_state, lines 246-250: existing = the SELECT's row
send_reminder_message_select(job) ==
    /\ job.pc = "select"
    /\ jobs' = Step(job, [job EXCEPT !.pc = "write",
                                     !.existing =
                                        Len(get_reminder_state(reminder_states,
                                                job.reminder_id, job.today)) # 0])
    /\ ev' = NoEv
    /\ UNCHANGED <<probe, todo, wizard, nextQuestion, wtick, questions, now, nextTick, ticks, users, reminders, reminder_states,
                   weekend_work_status, tick, chat, delivered, ackAt>>

\* create_or_update_reminder_state, lines 252-266: the UPDATE or the INSERT,
\* with acknowledged = False, and the commit
send_reminder_message_write(job) ==
    /\ job.pc = "write"
    /\ IF job.existing
       THEN /\ reminder_states' = UpdateState(reminder_states, job.reminder_id,
                                              job.today, now, 0)
            /\ jobs' = Step(job, [job EXCEPT !.pc = "deliver"])
            /\ ev' = Ev("updated", "", job.reminder_id, job.today, FALSE, NULL)
       ELSE IF UniqueViolated(reminder_states, job.reminder_id, job.today)
       THEN /\ reminder_states' = reminder_states
            /\ jobs' = Finish(job)
            /\ ev' = Raised("IntegrityError", job.reminder_id, job.today)
       ELSE /\ reminder_states' = InsertState(reminder_states, job.user_id,
                                              job.reminder_id, job.today, now, 0)
            /\ jobs' = Step(job, [job EXCEPT !.pc = "deliver"])
            /\ ev' = Ev("inserted", "", job.reminder_id, job.today, FALSE, NULL)
    /\ UNCHANGED <<probe, todo, wizard, nextQuestion, wtick, questions, now, nextTick, ticks, users, reminders, weekend_work_status,
                   tick, chat, delivered, ackAt>>

\* the notification reaches the chat: its button can be pressed
Deliver(job) ==
    /\ chat' = IF Len(chat) < MaxButtons
               THEN Append(chat, [chat_id |-> job.user_id,
                                  reminder_id |-> job.reminder_id])
               ELSE chat
    /\ delivered' =
          {d \in delivered : ~(d.reminder_id = job.reminder_id /\ d.date = job.today)}
          \cup {[reminder_id |-> job.reminder_id, date |-> job.today, at |-> now]}

\* lines 994-1019: fetch the image, send the photo, fall back to the text;
\* ev.diff counts the send attempts, ev.sent tells whether one succeeded
\* meme: fetch_random_meme returned an image; photo_ok, text_ok: send_photo,
\* send_message do not raise.  The photo is tried when there is an image, the
\* text when there is none or when the photo raised
send_reminder_message_send(job, meme, photo_ok, text_ok) ==
    LET ok == IF meme /\ photo_ok THEN TRUE ELSE text_ok
        attempts == IF meme /\ ~photo_ok THEN 2 ELSE 1
    IN  /\ IF ok THEN Deliver(job) ELSE UNCHANGED <<chat, delivered>>
        /\ ev' = Ev("dispatched", IF ok THEN "" ELSE "TelegramError",
                    job.reminder_id, job.today, ok, attempts)

send_reminder_message_deliver(job) ==
    /\ job.pc = "deliver"
    /\ \E meme \in BOOLEAN, photo_ok \in BOOLEAN, text_ok \in BOOLEAN :
          /\ meme \/ photo_ok
          /\ (meme /\ photo_ok) => text_ok
          /\ send_reminder_message_send(job, meme, photo_ok, text_ok)
    /\ jobs' = Finish(job)
    /\ UNCHANGED <<probe, todo, wizard, nextQuestion, wtick, questions, now, nextTick, ticks, users, reminders, reminder_states,
                   weekend_work_status, tick, ackAt>>

-----------------------------------------------------------------------------
(* src/bot.py: took_pills_callback, the press of the button of the m-th     *)
(* notification in the chat; the handler then edits the message, which      *)
(* removes the button                                                       *)

RemoveAt(seq, i) == SubSeq(seq, 1, i - 1) \o SubSeq(seq, i + 1, Len(seq))

\* ev.sent tells whether the UPDATE of acknowledge_reminder matched a row
took_pills_callback(m) ==
    /\ LET user_id     == chat[m].chat_id
           reminder_id == chat[m].reminder_id
           tz          == get_user_timezone(users, user_id)
           today       == DateOf(LocalNow(now, tz))
           rows        == StateRows(reminder_states, reminder_id, today)
       IN  /\ users' = get_or_create_user(users, user_id)
           /\ IF reminder_id \notin DOMAIN reminders
              THEN /\ UNCHANGED <<reminder_states, ackAt>>
                   /\ ev' = Ev("not_found", "", reminder_id, NoDate, FALSE, NULL)
              ELSE IF tz \notin KnownZones
              THEN /\ UNCHANGED <<reminder_states, ackAt>>
                   /\ ev' = Raised("UnknownTimeZoneError", reminder_id, NoDate)
              ELSE /\ reminder_states' =
                          acknowledge_reminder(reminder_states, reminder_id, today)
                   /\ ackAt' =
                          IF rows # {} /\ ~\E a \in ackAt : a.reminder_id = reminder_id
                                                           /\ a.date = today
                          THEN ackAt \cup {[reminder_id |-> reminder_id,
                                            date |-> today, at |-> now]}
                          ELSE ackAt
                   /\ ev' = Ev("took_pills", "", reminder_id, today, rows # {}, NULL)
    /\ chat' = RemoveAt(chat, m)
    /\ UNCHANGED <<probe, todo, wizard, nextQuestion, wtick, questions, now, nextTick, ticks, reminders, weekend_work_status, tick, jobs,
                   delivered>>

-----------------------------------------------------------------------------
(* src/bot.py: check_weekend_work_questions, one step per stretch between   *)
(* two awaits                                                               *)

QuestionReminder == Head(wtick.queue).reminder

\* `continue`, or the end of the loop body
QuestionContinue ==
    [IdleQuestions EXCEPT !.queue = Tail(wtick.queue),
                          !.pc = IF Len(wtick.queue) > 1 THEN "eval" ELSE "idle"]

\* a variant that asks about the day after tomorrow
Tomorrow_DayAfter(today) == NextDay(NextDay(today))

\* tomorrow = today + timedelta(days=1)
Tomorrow(today) == NextDay(today)

\* ask_datetime <= now < ask_datetime + timedelta(minutes=1)
InAskWindow(local, ask_work_time) ==
    LET ask_datetime == LocalizeToday(local, ParseHour(ask_work_time),
                                      ParseMinute(ask_work_time))
    IN  ask_datetime <= local /\ local < ask_datetime + 60

\* reminders = await get_advanced_daily_reminders_needing_questions()
check_weekend_work_questions_start ==
    /\ wtick.pc = "idle"
    /\ now = nextQuestion
    /\ LET rows == get_advanced_daily_reminders_needing_questions(reminders, users)
       IN  wtick' = [IdleQuestions EXCEPT !.queue = rows,
                                         !.pc = IF Len(rows) > 0 THEN "eval" ELSE "idle"]
    /\ nextQuestion' = nextQuestion + QuestionInterval
    /\ ev' = NoEv
    /\ UNCHANGED <<probe, todo, wizard, questions, now, nextTick, ticks, users, reminders,
                   reminder_states, weekend_work_status, tick, jobs, chat,
                   delivered, ackAt>>

\* from the head of the loop body to existing = await get_weekend_work_status(
\* reminder_id, tomorrow); a malformed ask_work_time raises out of the task
check_weekend_work_questions_eval ==
    /\ wtick.pc = "eval"
    /\ LET reminder == QuestionReminder
           local    == LocalNow(now, TickZone(Head(wtick.queue).timezone))
           tomorrow == Tomorrow(DateOf(local))
       IN  IF Weekday(tomorrow) \notin {5, 6}
           THEN wtick' = QuestionContinue /\ ev' = NoEv
           ELSE IF ~ParseOk(reminder.ask_work_time)
           THEN /\ wtick' = IdleQuestions
                /\ ev' = Raised("ValueError", reminder.id, tomorrow)
           ELSE IF ~InAskWindow(local, reminder.ask_work_time)
           THEN wtick' = QuestionContinue /\ ev' = NoEv
           ELSE IF Len(get_weekend_work_status(weekend_work_status, reminder.id,
                                               tomorrow)) # 0
           THEN /\ wtick' = QuestionContinue
                /\ ev' = Ev("question_exists", "", reminder.id, tomorrow, FALSE, NULL)
           ELSE /\ wtick' = [wtick EXCEPT !.pc = "select", !.tomorrow = tomorrow]
                /\ ev' = NoEv
    /\ UNCHANGED <<probe, todo, wizard, nextQuestion, questions, now, nextTick, ticks, users,
                   reminders, reminder_states, weekend_work_status, tick, jobs,
                   chat, delivered, ackAt>>

\* create_work_question: the SELECT
check_weekend_work_questions_select ==
    /\ wtick.pc = "select"
    /\ wtick' = [wtick EXCEPT
          !.pc = "insert",
          !.existing = WorkRows(weekend_work_status, QuestionReminder.id,
                                wtick.tomorrow) # {}]
    /\ ev' = NoEv
    /\ UNCHANGED <<probe, todo, wizard, nextQuestion, questions, now, nextTick, ticks, users,
                   reminders, reminder_states, weekend_work_status, tick, jobs,
                   chat, delivered, ackAt>>

\* create_work_question: the INSERT when the SELECT found no row; the
\* IntegrityError of UNIQUE(reminder_id, target_date) raises out of the task
check_weekend_work_questions_insert ==
    /\ wtick.pc = "insert"
    /\ LET reminder == QuestionReminder
           refused  == WorkRows(weekend_work_status, reminder.id, wtick.tomorrow) # {}
       IN  IF wtick.existing
           THEN /\ wtick' = [wtick EXCEPT !.pc = "send"]
                /\ ev' = NoEv
                /\ UNCHANGED weekend_work_status
           ELSE IF refused
           THEN /\ wtick' = IdleQuestions
                /\ ev' = Raised("IntegrityError", reminder.id, wtick.tomorrow)
                /\ UNCHANGED weekend_work_status
           ELSE /\ wtick' = [wtick EXCEPT !.pc = "send"]
                /\ weekend_work_status' =
                       Append(weekend_work_status,
                              QuestionRow(reminder.user_id, reminder.id,
                                          wtick.tomorrow, now))
                /\ ev' = Ev("question_created", "", reminder.id, wtick.tomorrow,
                            FALSE, NULL)
    /\ UNCHANGED <<probe, todo, wizard, nextQuestion, questions, now, nextTick, ticks, users,
                   reminders, reminder_states, tick, jobs, chat, delivered, ackAt>>

\* await context.bot.send_message(...) in its try block; ev.sent tells whether
\* the question reached the chat
check_weekend_work_questions_send ==
    /\ wtick.pc = "send"
    /\ \E ok \in BOOLEAN :
          /\ questions' =
                 IF ok
                 THEN Append(questions,
                             QuestionMessage(QuestionReminder.user_id,
                                             QuestionReminder.id, wtick.tomorrow))
                 ELSE questions
          /\ ev' = Ev("question", IF ok THEN "" ELSE "TelegramError",
                      QuestionReminder.id, wtick.tomorrow, ok, NULL)
    /\ wtick' = QuestionContinue
    /\ UNCHANGED <<probe, todo, wizard, nextQuestion, now, nextTick, ticks, users, reminders,
                   reminder_states, weekend_work_status, tick, jobs, chat,
                   delivered, ackAt>>

-----------------------------------------------------------------------------
(* src/bot.py: work_status_callback, the press of "yes" (has_work = 1) or   *)
(* "no" (has_work = 0) under the q-th work question in the chat; the        *)
(* handler then edits the message, which removes the buttons                *)

work_status_callback(q, has_work) ==
    /\ LET user_id     == questions[q].chat_id
           reminder_id == questions[q].reminder_id
           target_date == questions[q].target_date
       IN  /\ weekend_work_status' =
                  set_weekend_work_status(weekend_work_status, user_id, reminder_id,
                                          target_date, has_work, now)
           /\ ev' = Ev("work_status", "", reminder_id, target_date, has_work = 1, NULL)
    /\ questions' = RemoveAt(questions, q)
    /\ UNCHANGED <<probe, todo, wizard, nextQuestion, wtick, now, nextTick, ticks, users,
                   reminders, reminder_states, tick, jobs, chat, delivered, ackAt>>

-----------------------------------------------------------------------------

Next ==
    \/ AdvanceSecond
    \/ AdvanceToTick
    \/ AdvanceToQuestion
    \/ check_reminders_start
    \/ check_reminders_eval
    \/ check_reminders_work
    \/ check_reminders_ack
    \/ check_reminders_state
    \/ \E job \in BagToSet(jobs) : send_reminder_message_tz(job)
    \/ \E job \in BagToSet(jobs) : send_reminder_message_ack(job)
    \/ \E job \in BagToSet(jobs) : send_reminder_message_select(job)
    \/ \E job \in BagToSet(jobs) : send_reminder_message_write(job)
    \/ \E job \in BagToSet(jobs) : send_reminder_message_deliver(job)
    \/ \E m \in 1..Len(chat) : took_pills_callback(m)
    \/ check_weekend_work_questions_start
    \/ check_weekend_work_questions_eval
    \/ check_weekend_work_questions_select
    \/ check_weekend_work_questions_insert
    \/ check_weekend_work_questions_send
    \/ \E q \in 1..Len(questions), has_work \in {0, 1} : work_status_callback(q, has_work)

Spec == Init /\ [][Next]_vars

-----------------------------------------------------------------------------
(* The bot with two reminders of one user, a user who changes a setting     *)
(* during the run, a second user who presses a button, and a storage call   *)
(* that fails.                                                               *)

\* a name pytz does not know
UnknownZone == "Europe/Atlantis"

\* the users who send updates
Users == {1, 2}

\* a press of a button tz_set_<name> or delete_<id>
TimezoneRequest(user_id, name) ==
    [op |-> "tz_set", user_id |-> user_id, name |-> name, reminder_id |-> 0]

DeleteRequest(user_id, reminder_id) ==
    [op |-> "delete", user_id |-> user_id, name |-> "", reminder_id |-> reminder_id]

Requests ==
    {TimezoneRequest(1, name) :
         name \in {"Europe/Moscow", "America/Sao_Paulo", UnknownZone}}
        \cup {DeleteRequest(u, id) : u \in Users, id \in {1, 2}}

\* the runs differ in the requests the user makes: at most MaxRequests
Plans == {plan \in SUBSET Requests : Cardinality(plan) <= MaxRequests}

OpsReminders ==
    [id \in {1, 2} |->
        IF id = 1
        THEN AdvancedRow(1, 1, HHMM(0, 1), HHMM(23, 59), 1, HHMM(10, 0), HHMM(9, 0))
        ELSE WeeklyRow(2, 1, HHMM(23, 59), 0)]

OpsInit ==
    /\ now = StartTime
    /\ nextTick = StartTime + FirstTick
    /\ nextQuestion = StartTime + FirstQuestion
    /\ ticks = 0
    /\ \E tz \in {"Europe/Moscow", "America/Sao_Paulo"} :
          users = [u \in {1} |-> [timezone |-> tz]]
    /\ reminders = OpsReminders
    /\ reminder_states = <<>>
    /\ \E asked \in BOOLEAN :
          /\ asked => AskedEarlier(reminders[1], users[1].timezone)
          /\ weekend_work_status =
                 IF asked
                 THEN <<QuestionRow(1, 1, NextDay(EpochDate),
                                    AskedBefore(reminders[1], 1)
                                        - UtcOffset(users[1].timezone))>>
                 ELSE <<>>
          /\ questions =
                 IF asked THEN <<QuestionMessage(1, 1, NextDay(EpochDate))>> ELSE <<>>
    /\ tick = IdleTick
    /\ wtick = IdleQuestions
    /\ jobs = EmptyBag
    /\ chat = <<>>
    /\ delivered = {}
    /\ ackAt = {}
    /\ ev = NoEv
    /\ probe = NoProbe
    /\ \E plan \in Plans : todo = plan
    /\ wizard = NoWizard

\* src/bot.py: timezone_set_callback.  set_user_timezone stores the name,
\* then pytz.timezone(timezone_str) raises on a name it does not know
timezone_set_callback(req) ==
    /\ req.op = "tz_set"
    /\ todo' = todo \ {req}
    /\ users' = set_user_timezone(users, req.user_id, req.name)
    /\ ev' = IF req.name \in KnownZones
             THEN Ev("timezone_set", req.name, 0, NoDate, TRUE, NULL)
             ELSE Raised("UnknownTimeZoneError", 0, NoDate)
    /\ UNCHANGED <<probe, wizard, nextQuestion, wtick, questions, now, nextTick,
                   ticks, reminders, reminder_states, weekend_work_status, tick,
                   jobs, chat, delivered, ackAt>>

\* src/bot.py: delete_reminder_callback.  remove_reminder, then the list of
\* the user's reminders and get_user_timezone for the reply; ev.sent is the
\* `success` of remove_reminder
delete_reminder_callback(req) ==
    /\ req.op = "delete"
    /\ todo' = todo \ {req}
    /\ reminders' = remove_reminder(reminders, req.user_id, req.reminder_id)
    /\ users' = get_or_create_user(users, req.user_id)
    /\ ev' = Ev("deleted", "", req.reminder_id, NoDate,
                /\ req.reminder_id \in DOMAIN reminders
                /\ reminders[req.reminder_id].user_id = req.user_id, NULL)
    /\ UNCHANGED <<probe, wizard, nextQuestion, wtick, questions, now, nextTick,
                   ticks, reminder_states, weekend_work_status, tick, jobs, chat,
                   delivered, ackAt>>

\* a storage call of the running check_reminders raises (sqlite3's
\* OperationalError, as when the database is locked): nothing in
\* check_reminders catches it, so the run ends there
check_reminders_raise ==
    /\ tick.pc \in {"work", "ack", "state"}
    /\ tick' = IdleTick
    /\ ev' = Raised("OperationalError", TickReminder.id, TickToday)
    /\ UNCHANGED <<probe, todo, wizard, nextQuestion, wtick, questions, now,
                   nextTick, ticks, users, reminders, reminder_states,
                   weekend_work_status, jobs, chat, delivered, ackAt>>

\* src/bot.py: work_status_callback when query.edit_message_text raises (a
\* network error of the Bot API): the answer is stored, the message keeps
\* its two buttons
work_status_callback_edit_fails(q, has_work) ==
    /\ LET user_id     == questions[q].chat_id
           reminder_id == questions[q].reminder_id
           target_date == questions[q].target_date
       IN  /\ weekend_work_status' =
                  set_weekend_work_status(weekend_work_status, user_id, reminder_id,
                                          target_date, has_work, now)
           /\ ev' = Ev("work_status", "TelegramError", reminder_id, target_date,
                       has_work = 1, NULL)
    /\ UNCHANGED <<probe, todo, wizard, nextQuestion, wtick, questions, now,
                   nextTick, ticks, users, reminders, reminder_states, tick, jobs,
                   chat, delivered, ackAt>>

OpsNext ==
    \/ Next
    \/ \E req \in todo : timezone_set_callback(req)
    \/ \E req \in todo : delete_reminder_callback(req)
    \/ check_reminders_raise
    \/ \E q \in 1..Len(questions), has_work \in {0, 1} :
          work_status_callback_edit_fails(q, has_work)

OpsSpec == OpsInit /\ [][OpsNext]_vars

-----------------------------------------------------------------------------
(* The bot with two reminders that fall due in the same run of              *)
(* check_reminders: simple daily reminders of a UTC user at 21:00, the time  *)
(* of the last run.  Simple reminders never reach the weekend steps, so      *)
(* PairNext lists the steps such a run can take.                             *)

PairReminders == [id \in {1, 2} |-> DailyRow(id, 1, HHMM(21, 0))]

PairInit ==
    /\ now = StartTime
    /\ nextTick = StartTime + FirstTick
    /\ nextQuestion = StartTime + FirstQuestion
    /\ ticks = 0
    /\ users = [u \in {1} |-> [timezone |-> "UTC"]]
    /\ reminders = PairReminders
    /\ reminder_states = <<>>
    /\ weekend_work_status = <<>>
    /\ questions = <<>>
    /\ tick = IdleTick
    /\ wtick = IdleQuestions
    /\ jobs = EmptyBag
    /\ chat = <<>>
    /\ delivered = {}
    /\ ackAt = {}
    /\ ev = NoEv
    /\ probe = NoProbe
    /\ todo = {}
    /\ wizard = NoWizard

PairNext ==
    \/ AdvanceSecond
    \/ AdvanceToTick
    \/ AdvanceToQuestion
    \/ check_reminders_start
    \/ check_reminders_eval
    \/ check_reminders_ack
    \/ check_reminders_state
    \/ \E job \in BagToSet(jobs) : send_reminder_message_tz(job)
    \/ \E job \in BagToSet(jobs) : send_reminder_message_ack(job)
    \/ \E job \in BagToSet(jobs) : send_reminder_message_select(job)
    \/ \E job \in BagToSet(jobs) : send_reminder_message_write(job)
    \/ \E job \in BagToSet(jobs) : send_reminder_message_deliver(job)
    \/ \E m \in 1..Len(chat) : took_pills_callback(m)
    \/ check_weekend_work_questions_start

PairSpec == PairInit /\ [][PairNext]_vars

-----------------------------------------------------------------------------
-----------------------------------------------------------------------------
(* src/bot.py: the conversation that adds a reminder (lines 274-797,        *)
(* wired at 1249-1312), with the handlers of /start and of the menu button  *)
(* text that are registered before it (1316-1320).                          *)

\* d[key] = value
DictSet(d, key, value) ==
    [k \in DOMAIN d \cup {key} |-> IF k = key THEN value ELSE d[k]]

\* d.get(key, default)
DictGet(d, key, default) == IF key \in DOMAIN d THEN d[key] ELSE default

\* the characters str.strip() removes
Whitespace == {" ", "\t", "\n"}

\* str.strip()
RECURSIVE Strip(_)
Strip(s) ==
    IF Len(s) = 0 THEN s
    ELSE IF s[1] \in Whitespace THEN Strip(Tail(s))
    ELSE IF s[Len(s)] \in Whitespace THEN Strip(SubSeq(s, 1, Len(s) - 1))
    ELSE s

\* the characters of [0-5] and of [0-3]
UpTo(c, last) == IsDigit(c) /\ DigitValue(c) <= last

\* ^([01]?[0-9]|2[0-3]):[0-5][0-9] matched at the start of s, up to its end
MatchesHourMinute(s) ==
    \/ /\ Len(s) = 4
       /\ IsDigit(s[1])
       /\ s[2] = ":"
       /\ UpTo(s[3], 5)
       /\ IsDigit(s[4])
    \/ /\ Len(s) = 5
       /\ \/ UpTo(s[1], 1) /\ IsDigit(s[2])
          \/ s[1] = "2" /\ UpTo(s[2], 3)
       /\ s[3] = ":"
       /\ UpTo(s[4], 5)
       /\ IsDigit(s[5])

\* the pattern with hours up to 29
MatchesTime_AnyHour(s) ==
    /\ Len(s) \in {4, 5}
    /\ s[Len(s) - 2] = ":"
    /\ \A i \in 1..Len(s) : i # Len(s) - 2 => IsDigit(s[i])
    /\ UpTo(s[Len(s) - 1], 5)
    /\ Len(s) = 5 => UpTo(s[1], 2)

\* re.match(r'^([01]?[0-9]|2[0-3]):[0-5][0-9]$', s): `$` matches at the end
\* of s and before a newline that ends s
MatchesTime(s) ==
    \/ MatchesHourMinute(s)
    \/ /\ Len(s) > 0
       /\ s[Len(s)] = "\n"
       /\ MatchesHourMinute(SubSeq(s, 1, Len(s) - 1))

\* if len(time_str) == 4: time_str = '0' + time_str
PadTime(s) == IF Len(s) = 4 THEN <<"0">> \o s ELSE s

\* filters.COMMAND: the text starts with a bot command
IsCommand(s) == Len(s) > 0 /\ s[1] = "/"

\* the text of the persistent "menu" button (four Cyrillic letters in the
\* source), written here in Latin letters
Menu == <<"M", "e", "n", "u">>

StartCommand == <<"/", "s", "t", "a", "r", "t">>

\* filters.TEXT & ~filters.COMMAND & ~filters.Regex of the menu button text
TimeFilter(s) == Len(s) > 0 /\ ~IsCommand(s) /\ s # Menu

\* add_reminder: the reminders table afterwards; the new row gets the next id
\* and the defaults of the columns the INSERT does not name
add_reminder(tbl, user_id, time, frequency, day_of_week, day_of_month, month_fallback, daily_mode, even_day_time, odd_day_time, weekend_override, weekend_time_no_work, weekend_time_with_work, ask_work_time) ==
    LET lastrowid == Cardinality(DOMAIN tbl) + 1
    IN  [id \in DOMAIN tbl \cup {lastrowid} |->
            IF id \in DOMAIN tbl THEN tbl[id]
            ELSE [id |-> id, user_id |-> user_id, time |-> time,
                  frequency |-> frequency, day_of_week |-> day_of_week,
                  day_of_month |-> day_of_month, month_fallback |-> month_fallback,
                  daily_mode |-> daily_mode, even_day_time |-> even_day_time,
                  odd_day_time |-> odd_day_time,
                  weekend_override |-> IF weekend_override THEN 1 ELSE 0,
                  weekend_time_no_work |-> weekend_time_no_work,
                  weekend_time_with_work |-> weekend_time_with_work,
                  ask_work_time |-> ask_work_time, active |-> 1]]

\* the state of the bot outside the conversation
RestOfBot ==
    <<probe, todo, nextQuestion, wtick, questions, now, nextTick, ticks,
      reminder_states, weekend_work_status, tick, jobs, chat, delivered, ackAt>>

\* the user who talks to the bot in the conversation
WizardUser == 1

\* a handler that returns the next state and stores nothing
Collect_StateOnly(key, value, state) == [wizard EXCEPT !.state = state]

\* context.user_data['reminder'][key] = value, and the state the handler returns
Collect(key, value, state) ==
    [wizard EXCEPT !.reminder = DictSet(wizard.reminder, key, value),
                   !.state = state]

\* the step of a handler of the conversation: op names what it did
WizardEv(op, ok) == Ev(op, "", 0, NoDate, ok, NULL)

\* lines 1251-1306: the callback patterns a state of the conversation lists
StatePatterns(state) ==
    CASE state = SELECTING_FREQUENCY -> {"freq_", "menu_back"}
      [] state = SELECTING_DAILY_MODE -> {"daily_", "back_to_frequency", "menu_back"}
      [] state = SELECTING_WEEKEND_OVERRIDE ->
             {"weekend_", "back_to_frequency", "menu_back"}
      [] state = SELECTING_DAY_OF_WEEK -> {"dow_", "back_to_frequency", "menu_back"}
      [] state = SELECTING_DAY_OF_MONTH -> {"dom_", "back_to_frequency", "menu_back"}
      [] state = SELECTING_MONTH_FALLBACK ->
             {"fallback_", "back_to_frequency", "menu_back"}
      [] state \in {WAITING_FOR_TIME, WAITING_FOR_EVEN_TIME, WAITING_FOR_ODD_TIME,
                    WAITING_FOR_WEEKEND_NO_WORK_TIME,
                    WAITING_FOR_WEEKEND_WITH_WORK_TIME} ->
             {"back_to_frequency", "menu_back"}
      [] OTHER -> {}

\* lines 1307-1310: the callback patterns of the fallbacks
FallbackPatterns == {"menu_back", "back_to_frequency"}

\* a conversation that takes no button press while it waits for a typed time
Accepts_NoButtonWhileTyping(state, pattern) ==
    /\ state \in {SELECTING_FREQUENCY, SELECTING_DAILY_MODE, SELECTING_WEEKEND_OVERRIDE,
                  SELECTING_DAY_OF_WEEK, SELECTING_DAY_OF_MONTH,
                  SELECTING_MONTH_FALLBACK}
    /\ pattern \in StatePatterns(state) \cup FallbackPatterns

\* ConversationHandler.check_update on a callback query: inside the
\* conversation, the handlers of the state are tried, then the fallbacks
Accepts(state, pattern) ==
    /\ state # END
    /\ pattern \in StatePatterns(state) \cup FallbackPatterns

\* lines 274-296: the entry point, the press of menu_add
menu_add_callback ==
    /\ wizard.state = END
    /\ Cardinality(DOMAIN reminders) < MaxAdded
    /\ wizard' = [state |-> SELECTING_FREQUENCY, has_reminder |-> TRUE,
                  reminder |-> EmptyDict]
    /\ ev' = WizardEv("menu_add", TRUE)
    /\ UNCHANGED <<users, reminders>>
    /\ UNCHANGED RestOfBot

\* lines 299-359: the press of freq_daily, freq_weekly or freq_monthly
select_frequency_callback(frequency) ==
    /\ wizard.state = SELECTING_FREQUENCY
    /\ wizard' = Collect("frequency", frequency,
                         CASE frequency = "daily" -> SELECTING_DAILY_MODE
                           [] frequency = "weekly" -> SELECTING_DAY_OF_WEEK
                           [] frequency = "monthly" -> SELECTING_DAY_OF_MONTH)
    /\ ev' = WizardEv("frequency", TRUE)
    /\ UNCHANGED <<users, reminders>>
    /\ UNCHANGED RestOfBot

\* lines 362-383: the press of back_to_frequency, in every state
back_to_frequency_callback ==
    /\ Accepts(wizard.state, "back_to_frequency")
    /\ wizard' = [state |-> SELECTING_FREQUENCY, has_reminder |-> TRUE,
                  reminder |-> EmptyDict]
    /\ ev' = WizardEv("back_to_frequency", TRUE)
    /\ UNCHANGED <<users, reminders>>
    /\ UNCHANGED RestOfBot

\* lines 791-797: the press of menu_back, in every state; show_main_menu
\* reads the user's timezone.  context.user_data keeps what was collected
cancel_conversation ==
    /\ Accepts(wizard.state, "menu_back")
    /\ wizard' = [wizard EXCEPT !.state = END]
    /\ users' = get_or_create_user(users, WizardUser)
    /\ ev' = WizardEv("cancel", TRUE)
    /\ UNCHANGED reminders
    /\ UNCHANGED RestOfBot

\* lines 386-405: the press of dow_<n>
select_day_of_week_callback(day_of_week) ==
    /\ wizard.state = SELECTING_DAY_OF_WEEK
    /\ wizard' = Collect("day_of_week", day_of_week, WAITING_FOR_TIME)
    /\ ev' = WizardEv("day_of_week", TRUE)
    /\ UNCHANGED <<users, reminders>>
    /\ UNCHANGED RestOfBot

\* lines 408-448: the press of dom_<n>
select_day_of_month_callback(day_of_month) ==
    /\ wizard.state = SELECTING_DAY_OF_MONTH
    /\ wizard' =
          IF day_of_month > 28
          THEN Collect("day_of_month", day_of_month, SELECTING_MONTH_FALLBACK)
          ELSE [wizard EXCEPT
                   !.reminder = DictSet(DictSet(wizard.reminder, "day_of_month",
                                                day_of_month),
                                        "month_fallback", "last_day"),
                   !.state = WAITING_FOR_TIME]
    /\ ev' = WizardEv("day_of_month", TRUE)
    /\ UNCHANGED <<users, reminders>>
    /\ UNCHANGED RestOfBot

\* lines 451-476: the press of fallback_last_day or fallback_skip
select_month_fallback_callback(fallback) ==
    /\ wizard.state = SELECTING_MONTH_FALLBACK
    /\ wizard' = Collect("month_fallback", fallback, WAITING_FOR_TIME)
    /\ ev' = WizardEv("month_fallback", TRUE)
    /\ UNCHANGED <<users, reminders>>
    /\ UNCHANGED RestOfBot

\* lines 479-510: the press of daily_simple or daily_advanced
select_daily_mode_callback(mode) ==
    /\ wizard.state = SELECTING_DAILY_MODE
    /\ wizard' = Collect("daily_mode", mode,
                         IF mode = "simple" THEN WAITING_FOR_TIME
                         ELSE WAITING_FOR_EVEN_TIME)
    /\ ev' = WizardEv("daily_mode", TRUE)
    /\ UNCHANGED <<users, reminders>>
    /\ UNCHANGED RestOfBot

\* a handler that collects one time of the advanced reminder: the text is
\* stripped and matched; a text that does not match is answered with the
\* format hint and the handler returns its own state
ReceiveTime(text, own, key, next) ==
    /\ TimeFilter(text)
    /\ LET time_str == Strip(text)
       IN  IF ~MatchesTime(time_str)
           THEN /\ wizard' = [wizard EXCEPT !.state = own]
                /\ ev' = WizardEv("invalid_time", FALSE)
           ELSE /\ wizard' = Collect(key, PadTime(time_str), next)
                /\ ev' = WizardEv("time", TRUE)
    /\ UNCHANGED <<users, reminders>>
    /\ UNCHANGED RestOfBot

\* lines 513-542
receive_even_time(text) ==
    /\ wizard.state = WAITING_FOR_EVEN_TIME
    /\ ReceiveTime(text, WAITING_FOR_EVEN_TIME, "even_day_time",
                   WAITING_FOR_ODD_TIME)

\* lines 545-579
receive_odd_time(text) ==
    /\ wizard.state = WAITING_FOR_ODD_TIME
    /\ ReceiveTime(text, WAITING_FOR_ODD_TIME, "odd_day_time",
                   SELECTING_WEEKEND_OVERRIDE)

\* lines 612-643
receive_weekend_no_work_time(text) ==
    /\ wizard.state = WAITING_FOR_WEEKEND_NO_WORK_TIME
    /\ ReceiveTime(text, WAITING_FOR_WEEKEND_NO_WORK_TIME, "weekend_time_no_work",
                   WAITING_FOR_WEEKEND_WITH_WORK_TIME)

\* lines 667-726: save_advanced_daily_reminder on the dict reminder_data;
\* add_reminder, the reply with the user's timezone, user_data.pop('reminder')
save_advanced_daily_reminder(reminder_data) ==
    /\ reminders' =
          add_reminder(reminders, WizardUser,
                       DictGet(reminder_data, "even_day_time", NoText),
                       "daily", NULL, NULL, "last_day", "advanced",
                       DictGet(reminder_data, "even_day_time", NoText),
                       DictGet(reminder_data, "odd_day_time", NoText),
                       DictGet(reminder_data, "weekend_override", FALSE),
                       DictGet(reminder_data, "weekend_time_no_work", NoText),
                       DictGet(reminder_data, "weekend_time_with_work", NoText),
                       HHMM(18, 0))
    /\ users' = get_or_create_user(users, WizardUser)
    /\ wizard' = NoWizard
    /\ ev' = Ev("added", "", Cardinality(DOMAIN reminders) + 1, NoDate, TRUE, NULL)

\* lines 582-609: the press of weekend_yes or weekend_no
select_weekend_override_callback(choice) ==
    /\ wizard.state = SELECTING_WEEKEND_OVERRIDE
    /\ IF choice = "no"
       THEN save_advanced_daily_reminder(
                DictSet(wizard.reminder, "weekend_override", FALSE))
       ELSE /\ wizard' = Collect("weekend_override", TRUE,
                                 WAITING_FOR_WEEKEND_NO_WORK_TIME)
            /\ ev' = WizardEv("weekend_override", TRUE)
            /\ UNCHANGED <<users, reminders>>
    /\ UNCHANGED RestOfBot

\* lines 646-664
receive_weekend_with_work_time(text) ==
    /\ wizard.state = WAITING_FOR_WEEKEND_WITH_WORK_TIME
    /\ TimeFilter(text)
    /\ LET time_str == Strip(text)
       IN  IF ~MatchesTime(time_str)
           THEN /\ wizard' = [wizard EXCEPT !.state = WAITING_FOR_WEEKEND_WITH_WORK_TIME]
                /\ ev' = WizardEv("invalid_time", FALSE)
                /\ UNCHANGED <<users, reminders>>
           ELSE save_advanced_daily_reminder(
                    DictSet(wizard.reminder, "weekend_time_with_work",
                            PadTime(time_str)))
    /\ UNCHANGED RestOfBot

\* lines 729-788
receive_time(text) ==
    /\ wizard.state = WAITING_FOR_TIME
    /\ TimeFilter(text)
    /\ LET time_str == Strip(text)
           reminder_data == IF wizard.has_reminder THEN wizard.reminder ELSE EmptyDict
       IN  IF ~MatchesTime(time_str)
           THEN /\ wizard' = [wizard EXCEPT !.state = WAITING_FOR_TIME]
                /\ ev' = WizardEv("invalid_time", FALSE)
                /\ UNCHANGED <<users, reminders>>
           ELSE /\ reminders' =
                       add_reminder(reminders, WizardUser, PadTime(time_str),
                                    DictGet(reminder_data, "frequency", "daily"),
                                    DictGet(reminder_data, "day_of_week", NULL),
                                    DictGet(reminder_data, "day_of_month", NULL),
                                    DictGet(reminder_data, "month_fallback", "last_day"),
                                    "simple", NoText, NoText, FALSE, NoText, NoText,
                                    HHMM(18, 0))
                /\ users' = get_or_create_user(users, WizardUser)
                /\ wizard' = NoWizard
                /\ ev' = Ev("added", "", Cardinality(DOMAIN reminders) + 1, NoDate,
                            TRUE, NULL)
    /\ UNCHANGED RestOfBot

\* lines 171-197: /start, handled before the conversation sees the update
start(text) ==
    /\ text = StartCommand
    /\ users' = get_or_create_user(users, WizardUser)
    /\ ev' = WizardEv("start", TRUE)
    /\ UNCHANGED <<wizard, reminders>>
    /\ UNCHANGED RestOfBot

\* lines 200-214: the menu button text, handled before the conversation too
menu_button_handler(text) ==
    /\ text = Menu
    /\ users' = get_or_create_user(users, WizardUser)
    /\ ev' = WizardEv("menu", TRUE)
    /\ UNCHANGED <<wizard, reminders>>
    /\ UNCHANGED RestOfBot

\* the texts the user sends: times in both accepted forms and with blanks
\* around, near misses of the pattern, a command and the menu button text
WizardTexts ==
    {HHMM(9, 0), Tail(HHMM(9, 0)), HHMM(23, 59), <<" ">> \o HHMM(23, 59) \o <<" ">>,
     HHMM(24, 0), Tail(HHMM(9, 60)), <<"0", "9", "0", "0">>, <<"a", "b", "c">>,
     HHMM(9, 0) \o <<":", "0", "0">>, <<"1">> \o HHMM(23, 0),
     <<"0", "9", ":", "0", "a">>, StartCommand, Menu}

WizardInit ==
    /\ now = StartTime
    /\ nextTick = StartTime + FirstTick
    /\ nextQuestion = StartTime + FirstQuestion
    /\ ticks = 0
    /\ users = [u \in {} |-> [timezone |-> "UTC"]]
    /\ reminders = [id \in {} |-> DailyRow(id, WizardUser, NoText)]
    /\ reminder_states = <<>>
    /\ weekend_work_status = <<>>
    /\ questions = <<>>
    /\ tick = IdleTick
    /\ wtick = IdleQuestions
    /\ jobs = EmptyBag
    /\ chat = <<>>
    /\ delivered = {}
    /\ ackAt = {}
    /\ ev = NoEv
    /\ probe = NoProbe
    /\ todo = {}
    /\ wizard = NoWizard

WizardNext ==
    \/ menu_add_callback
    \/ \E frequency \in {"daily", "weekly", "monthly"} :
          select_frequency_callback(frequency)
    \/ back_to_frequency_callback
    \/ cancel_conversation
    \/ \E day_of_week \in {0, 5} : select_day_of_week_callback(day_of_week)
    \/ \E day_of_month \in {15, 31} : select_day_of_month_callback(day_of_month)
    \/ \E fallback \in {"last_day", "skip"} : select_month_fallback_callback(fallback)
    \/ \E mode \in {"simple", "advanced"} : select_daily_mode_callback(mode)
    \/ \E text \in WizardTexts : receive_even_time(text)
    \/ \E text \in WizardTexts : receive_odd_time(text)
    \/ \E choice \in {"yes", "no"} : select_weekend_override_callback(choice)
    \/ \E text \in WizardTexts : receive_weekend_no_work_time(text)
    \/ \E text \in WizardTexts : receive_weekend_with_work_time(text)
    \/ \E text \in WizardTexts : receive_time(text)
    \/ \E text \in WizardTexts : start(text)
    \/ \E text \in WizardTexts : menu_button_handler(text)

WizardSpec == WizardInit /\ [][WizardNext]_vars

(* The pure rules of src/database.py, should_reminder_trigger and            *)
(* get_reminder_time_for_date, and the choice of lines 1162-1175 of          *)
(* src/bot.py, called on a reminder row for consecutive dates.               *)

ProbeTimes(t) == {NoText, t}

\* rows of every frequency and mode; the columns a mode does not use are set
\* in some rows and unset in others
ProbeReminders ==
    {[DailyRow(1, 1, HHMM(9, 0)) EXCEPT !.even_day_time = e, !.odd_day_time = o,
                                        !.weekend_override = w,
                                        !.weekend_time_no_work = n,
                                        !.weekend_time_with_work = k,
                                        !.daily_mode = m] :
        e \in ProbeTimes(HHMM(8, 0)), o \in ProbeTimes(HHMM(20, 0)), w \in {0, 1},
        n \in ProbeTimes(HHMM(10, 0)), k \in ProbeTimes(HHMM(7, 0)),
        m \in {"simple", "advanced"}}
    \cup
    {[WeeklyRow(1, 1, HHMM(9, 0), d) EXCEPT !.even_day_time = e, !.weekend_override = w,
                                            !.weekend_time_no_work = e] :
        d \in 0..6, e \in ProbeTimes(HHMM(8, 0)), w \in {0, 1}}
    \cup
    {[MonthlyRow(1, 1, HHMM(9, 0), d, f) EXCEPT !.odd_day_time = o] :
        d \in {1, 15, 28, 29, 30, 31}, f \in {"last_day", "skip"},
        o \in ProbeTimes(HHMM(20, 0))}

\* the first of February of a leap year and of a common year, of a month
\* of 30 days and of a month of 31 days
ProbeDates ==
    {[year |-> 2024, month |-> 2, day |-> 1], [year |-> 2025, month |-> 2, day |-> 1],
     [year |-> 2024, month |-> 11, day |-> 1], [year |-> 2024, month |-> 12, day |-> 1]}

ProbeInit ==
    /\ \E r \in ProbeReminders, d \in ProbeDates, h \in {NULL, 0, 1} :
          probe = [NoProbe EXCEPT !.reminder = r, !.date = d, !.has_work = h]
    /\ now = StartTime
    /\ nextTick = StartTime + FirstTick
    /\ ticks = 0
    /\ users = [u \in {1} |-> [timezone |-> "UTC"]]
    /\ nextQuestion = StartTime + FirstQuestion
    /\ reminders = [i \in {1} |-> probe.reminder]
    /\ reminder_states = <<>>
    /\ weekend_work_status = <<>>
    /\ tick = IdleTick
    /\ wtick = IdleQuestions
    /\ questions = <<>>
    /\ jobs = EmptyBag
    /\ chat = <<>>
    /\ delivered = {}
    /\ ackAt = {}
    /\ ev = NoEv
    /\ todo = {}
    /\ wizard = NoWizard

\* the calls on probe.date
ProbeEvaluate ==
    /\ ~probe.evaluated
    /\ probe' = [probe EXCEPT
          !.evaluated = TRUE,
          !.due  = should_reminder_trigger(probe.reminder, probe.date),
          !.time = get_reminder_time_for_date(probe.reminder, probe.date, probe.has_work),
          !.used = ResolvedTime(probe.reminder, probe.date, probe.has_work)]
    /\ UNCHANGED <<todo, wizard, nextQuestion, wtick, questions, now, nextTick, ticks, users, reminders, reminder_states,
                   weekend_work_status, tick, jobs, chat, delivered, ackAt, ev>>

\* on to the next date
ProbeNextDate ==
    /\ probe.evaluated
    /\ probe.step < MaxProbeDays
    /\ probe' = [probe EXCEPT !.evaluated = FALSE, !.date = NextDay(probe.date),
                              !.step = probe.step + 1]
    /\ UNCHANGED <<todo, wizard, nextQuestion, wtick, questions, now, nextTick, ticks, users, reminders, reminder_states,
                   weekend_work_status, tick, jobs, chat, delivered, ackAt, ev>>

ProbeNext ==
    \/ ProbeEvaluate
    \/ ProbeNextDate

ProbeSpec == ProbeInit /\ [][ProbeNext]_vars

-----------------------------------------------------------------------------
(* Properties.  A step of check_reminders that leaves pc "state" is the      *)
(* decision of lines 1189-1216; it schedules a dispatch when jobs grows.     *)

Decides == tick.pc = "state" /\ tick' # tick

Schedules == Decides /\ BagCardinality(jobs') = BagCardinality(jobs) + 1

\* the local time of day of the running iteration of check_reminders, and of
\* the text "HH:MM", in seconds
TickTimeOfDay == TickLocal % SecondsPerDay

TimeOfDay(text) == ParseHour(text) * 3600 + ParseMinute(text) * 60

SameKey(a, reminder_id, date) == a.reminder_id = reminder_id /\ a.date = date

Acknowledged(reminder_id, date) ==
    \E i \in 1..Len(reminder_states) :
        /\ reminder_states[i].reminder_id = reminder_id
        /\ reminder_states[i].reminder_date = date
        /\ reminder_states[i].acknowledged = 1

\* C1: once a reminder has been acknowledged for date D, no notification for
\* (reminder, D) is delivered afterwards: a step that delivers a notification
\* for (reminder, D) finds no acknowledgement of (reminder, D) on record.
C1_NoDispatchAfterAck ==
    (ev.op = "dispatched" /\ ev.sent)
        => ~\E a \in ackAt : SameKey(a, ev.reminder_id, ev.date)

\* C2: the acknowledged state of a (reminder, date) row is terminal: no step
\* takes the acknowledged flag of a row from 1 back to 0.
C2_AcknowledgedTerminal ==
    [][\A i \in 1..Len(reminder_states) :
          reminder_states[i].acknowledged = 1
              => \A j \in 1..Len(reminder_states') :
                    (/\ reminder_states'[j].reminder_id = reminder_states[i].reminder_id
                     /\ reminder_states'[j].reminder_date = reminder_states[i].reminder_date)
                        => reminder_states'[j].acknowledged = 1]_vars

\* C3: for a (reminder, date) that is sent and not acknowledged, the decision
\* of check_reminders schedules a dispatch if and only if the UTC time of the
\* iteration minus last_sent is at least REMINDER_INTERVAL; and the write of a
\* dispatch job on the existing row refreshes last_sent to the current time.
C3_RenotifyAtInterval ==
    [][/\ Decides =>
            LET state == get_reminder_state(reminder_states, TickReminder.id, TickToday)
            IN  (Len(state) # 0 /\ state[1].last_sent # NULL /\ state[1].acknowledged = 0)
                    => (Schedules <=> tick.now - state[1].last_sent >= REMINDER_INTERVAL)
       /\ ev'.op = "updated" =>
            \A j \in 1..Len(reminder_states') :
                (/\ reminder_states'[j].reminder_id = ev'.reminder_id
                 /\ reminder_states'[j].reminder_date = ev'.date)
                    => reminder_states'[j].last_sent = now']_vars

\* C3, its case: a decision made exactly REMINDER_INTERVAL seconds after
\* last_sent scheduled a dispatch.
C3_Witness == ev.op = "decided" /\ ev.diff = REMINDER_INTERVAL /\ ev.sent

C5_DailyOnceThenQuiet ==
    [][(Decides /\ TickReminder.frequency = "daily"
                /\ TickReminder.daily_mode = "simple") =>
          /\ StateRows(reminder_states, TickReminder.id, TickToday) = {} => Schedules
          /\ (\E a \in ackAt : SameKey(a, TickReminder.id, TickToday) /\ a.at < tick.now)
                => ~Schedules]_vars

\* C6: an explicit acknowledgement of (reminder, date) leaves (reminder, date)
\* acknowledged, whether or not a row of it existed.
C6_AckLeavesAcknowledged ==
    ev.op = "took_pills" => Acknowledged(ev.reminder_id, ev.date)

\* C7: acknowledging twice leaves the state acknowledged and adds no row, from
\* every starting state: after the UPDATE of a press of the button, a second
\* acknowledge_reminder of the same (reminder, date) changes nothing, and
\* (reminder, date) is acknowledged with one row.
C7_AckIdempotent ==
    ev.op = "took_pills" =>
        LET twice == acknowledge_reminder(reminder_states, ev.reminder_id, ev.date)
        IN  /\ twice = reminder_states
            /\ is_reminder_acknowledged(twice, ev.reminder_id, ev.date)
            /\ Cardinality(StateRows(twice, ev.reminder_id, ev.date)) = 1

\* C8: storage holds at most one reminder_states row per (reminder id, date),
\* and no create_or_update_reminder_state ends in an error.
C8_OneRowNoError ==
    /\ \A i, j \in 1..Len(reminder_states) :
          (/\ reminder_states[i].reminder_id = reminder_states[j].reminder_id
           /\ reminder_states[i].reminder_date = reminder_states[j].reminder_date)
              => i = j
    /\ ~(ev.op = "raised" /\ ev.what = "IntegrityError")

\* C9: any two notifications delivered for the same (reminder, date) are at
\* least REMINDER_INTERVAL seconds apart: a step that delivers one comes that
\* long after the latest one delivered before.
C9_DeliveriesSpaced ==
    [][(ev'.op = "dispatched" /\ ev'.sent) =>
          \A d \in delivered :
              SameKey(d, ev'.reminder_id, ev'.date) => now' - d.at >= REMINDER_INTERVAL]_vars

\* C10: an iteration of check_reminders that finds the reminder due, its time
\* reached earlier on the local date, and (reminder, date) neither
\* acknowledged nor sent, schedules a dispatch at once, however long ago the
\* time was reached.
C10_CatchUpAtOnce ==
    [][/\ (tick.pc = "ack" /\ tick' # tick
           /\ ~Acknowledged(TickReminder.id, TickToday)
           /\ TickTimeOfDay >= TimeOfDay(tick.reminder_time)) => tick'.pc = "state"
       /\ (Decides /\ StateRows(reminder_states, TickReminder.id, TickToday) = {})
             => Schedules]_vars

\* C10, its case: the first run of check_reminders after the start, minutes
\* after the time of the reminder, scheduled the first dispatch of the date.
C10_Witness ==
    /\ ev.op = "decided" /\ ev.sent /\ ev.diff = NULL
    /\ ticks = 1
    /\ reminder_states = <<>>
    /\ \E job \in BagToSet(jobs) :
          LocalNow(now, users[job.user_id].timezone) % SecondsPerDay
             >= TimeOfDay(job.time) + 180

-----------------------------------------------------------------------------
(* Properties of the pure rules, on the calls of ProbeSpec *)

ProbeDate(y, m, d) == probe.date = [year |-> y, month |-> m, day |-> d]

\* the date is the last one of its month
ProbeLastDay == NextDay(probe.date).month # probe.date.month

ProbeOverflow ==
    /\ probe.evaluated
    /\ probe.reminder.frequency = "monthly"
    /\ probe.reminder.day_of_month
          > DaysInMonth(probe.date.year, probe.date.month)

ProbeAdvanced ==
    /\ probe.evaluated
    /\ probe.reminder.frequency = "daily"
    /\ probe.reminder.daily_mode = "advanced"

ProbeWeekend == Weekday(probe.date) >= 5 /\ probe.reminder.weekend_override # 0

\* the variant, or the base time when the variant is unset
OrBase(variant) == IF variant # NoText THEN variant ELSE probe.reminder.time

\* C12: a weekly reminder with day_of_week = k is due on a date if and only
\* if the weekday of the date (0 = Monday .. 6 = Sunday) is k, and on exactly
\* one of any seven consecutive dates; 1 November 2024 is a Friday.
C12_WeeklyOnItsWeekday ==
    (probe.evaluated /\ probe.reminder.frequency = "weekly") =>
        /\ probe.due <=> Weekday(probe.date) = probe.reminder.day_of_week
        /\ ProbeDate(2024, 11, 1) => (probe.due <=> probe.reminder.day_of_week = 4)
        /\ Cardinality({i \in 0..6 :
               should_reminder_trigger(probe.reminder, AddDays(probe.date, i))}) = 1

\* C12, its case: a Sunday reminder found due on a Sunday.
C12_Witness ==
    /\ probe.evaluated /\ probe.reminder.frequency = "weekly"
    /\ probe.reminder.day_of_week = 6 /\ probe.due /\ probe.step >= 7

\* C13: a monthly reminder whose day_of_month exceeds the length of the month,
\* with fallback last_day, is due exactly on the last day of the month: day 30
\* of November, day 29 of February 2024, day 28 of February 2025.
C13_LastDayFallback ==
    (ProbeOverflow /\ probe.reminder.month_fallback = "last_day") =>
        /\ probe.due <=> ProbeLastDay
        /\ probe.date.month = 11 => (probe.due <=> probe.date.day = 30)
        /\ (probe.date.month = 2 /\ probe.date.year = 2024)
              => (probe.due <=> probe.date.day = 29)
        /\ (probe.date.month = 2 /\ probe.date.year = 2025)
              => (probe.due <=> probe.date.day = 28)

\* C13, its case: day_of_month = 31 found due on 30 November.
C13_Witness ==
    /\ ProbeOverflow /\ probe.reminder.month_fallback = "last_day"
    /\ probe.reminder.day_of_month = 31 /\ ProbeDate(2024, 11, 30) /\ probe.due

\* C14: a monthly reminder whose day_of_month exceeds the length of the month,
\* with fallback skip, is due on no day of the month.
C14_SkipFallback ==
    (ProbeOverflow /\ probe.reminder.month_fallback = "skip") => ~probe.due

\* C14, its case: day_of_month = 31 found not due on the last day of
\* February 2025.
C14_Witness ==
    /\ ProbeOverflow /\ probe.reminder.month_fallback = "skip"
    /\ probe.reminder.day_of_month = 31 /\ ProbeDate(2025, 2, 28) /\ ~probe.due

\* C15: a monthly reminder whose day_of_month is at most the length of the
\* month is due if and only if the day of the date is day_of_month, whatever
\* the fallback; for day_of_month <= 28 the other fallback gives the same
\* answer on every date.
C15_DayOfMonth ==
    (/\ probe.evaluated /\ probe.reminder.frequency = "monthly"
     /\ probe.reminder.day_of_month <= DaysInMonth(probe.date.year, probe.date.month)) =>
        /\ probe.due <=> probe.date.day = probe.reminder.day_of_month
        /\ probe.reminder.day_of_month <= 28 =>
              \A f \in {"last_day", "skip"} :
                  should_reminder_trigger([probe.reminder EXCEPT !.month_fallback = f],
                                          probe.date) = probe.due

\* C15, its case: day_of_month = 29 with fallback skip found due on
\* 29 February 2024.
C15_Witness ==
    /\ probe.evaluated /\ probe.reminder.frequency = "monthly"
    /\ probe.reminder.day_of_month = 29 /\ probe.reminder.month_fallback = "skip"
    /\ ProbeDate(2024, 2, 29) /\ probe.due

\* C16: for an advanced daily reminder, on a date that is not a weekend or
\* with the weekend override disabled, the resolved time is the even-day time
\* on an even day of the month and the odd-day time on an odd one, or the
\* base time when that variant is unset: with even 08:00 and odd 20:00,
\* 08:00 on day 14 and 20:00 on day 15.
C16_EvenOdd ==
    (ProbeAdvanced /\ ~ProbeWeekend) =>
        /\ probe.time = IF probe.date.day % 2 = 0
                        THEN OrBase(probe.reminder.even_day_time)
                        ELSE OrBase(probe.reminder.odd_day_time)
        /\ (probe.date.day = 14 /\ probe.reminder.even_day_time = HHMM(8, 0))
              => probe.time = HHMM(8, 0)
        /\ (probe.date.day = 15 /\ probe.reminder.odd_day_time = HHMM(20, 0))
              => probe.time = HHMM(20, 0)

\* C16, its case: Saturday 14 December 2024 with the override disabled
\* resolved to the even-day time.
C16_Witness ==
    /\ ProbeAdvanced /\ probe.reminder.weekend_override = 0
    /\ probe.reminder.weekend_time_no_work # NoText
    /\ ProbeDate(2024, 12, 14) /\ probe.time = HHMM(8, 0)

\* C17: for an advanced daily reminder with the weekend override enabled, on
\* a Saturday or Sunday the resolved time is the with-work variant when
\* has_work is true and the no-work variant when it is false or unknown, or
\* the base time when that variant is unset, whatever the parity of the day.
C17_WeekendVariant ==
    (ProbeAdvanced /\ ProbeWeekend) =>
        probe.time = IF probe.has_work = 1
                     THEN OrBase(probe.reminder.weekend_time_with_work)
                     ELSE OrBase(probe.reminder.weekend_time_no_work)

\* C17, its case: has_work unknown on a Saturday resolved to the no-work
\* variant, the even-day time and the with-work variant being set as well.
C17_Witness ==
    /\ ProbeAdvanced /\ ProbeWeekend /\ probe.has_work = NULL
    /\ Weekday(probe.date) = 5 /\ probe.date.day % 2 = 0
    /\ probe.reminder.even_day_time # NoText
    /\ probe.reminder.weekend_time_with_work # NoText
    /\ probe.time = HHMM(10, 0)

\* C18: for a reminder that is not daily, and for a simple daily one, both
\* get_reminder_time_for_date and the choice check_reminders makes give the
\* base time on every date, whatever the other time columns and has_work.
C18_BaseTime ==
    (probe.evaluated /\ ~(probe.reminder.frequency = "daily"
                          /\ probe.reminder.daily_mode = "advanced")) =>
        /\ probe.time = probe.reminder.time
        /\ probe.used = probe.reminder.time

\* C18, its case: a simple daily reminder with every variant set and the
\* override enabled, has_work true, on a Saturday: the base time.
C18_Witness ==
    /\ probe.evaluated /\ probe.reminder.frequency = "daily"
    /\ probe.reminder.daily_mode = "simple"
    /\ probe.reminder.even_day_time # NoText /\ probe.reminder.odd_day_time # NoText
    /\ probe.reminder.weekend_time_with_work # NoText
    /\ probe.reminder.weekend_override = 1 /\ probe.has_work = 1
    /\ Weekday(probe.date) = 5 /\ probe.used = HHMM(9, 0)

-----------------------------------------------------------------------------
(* The weekend work status in the running scheduler.  The step of           *)
(* check_reminders that leaves pc "work" is the one that read the           *)
(* weekend_work_status row of (reminder, today) and resolved the time,      *)
(* which the tick carries as tick.reminder_time from then on.               *)

ResolvesWeekend == tick.pc = "work" /\ tick'.pc = "ack"

\* the rows of the table that answer the question about (reminder, date)
Answers(reminder_id, date) ==
    {i \in 1..Len(weekend_work_status) :
        /\ weekend_work_status[i].reminder_id = reminder_id
        /\ weekend_work_status[i].target_date = date
        /\ weekend_work_status[i].responded = 1}

\* the no-work variant of a reminder, or its base time
NoWorkTime(reminder) ==
    IF reminder.weekend_time_no_work # NoText
    THEN reminder.weekend_time_no_work ELSE reminder.time

\* C19: on a weekend date the scheduler takes the work status for unknown,
\* and so resolves to the no-work variant, when the question about that date
\* was never asked or was asked and not answered; it resolves to the
\* with-work variant only on a row with responded = 1 that says has_work.
C19_UnansweredIsUnknown ==
    [][ResolvesWeekend =>
          LET reminder == TickReminder
              answers  == Answers(reminder.id, TickToday)
          IN  /\ answers = {} => tick'.reminder_time = NoWorkTime(reminder)
              /\ tick'.reminder_time # NoWorkTime(reminder)
                    => \E i \in answers : weekend_work_status[i].has_work = 1]_vars

\* the scheduler has resolved a Saturday's time to the no-work variant while
\* the question about that Saturday is asked and unanswered
C19_Witness ==
    /\ tick.pc = "ack"
    /\ Weekday(TickToday) = 5
    /\ TickReminder.daily_mode = "advanced" /\ TickReminder.weekend_override = 1
    /\ WorkRows(weekend_work_status, TickReminder.id, TickToday) # {}
    /\ Answers(TickReminder.id, TickToday) = {}
    /\ tick.reminder_time = TickReminder.weekend_time_no_work
    /\ TickReminder.weekend_time_with_work # tick.reminder_time

\* the owner's local date, as a day number
LocalDay(user_id) == ToOrdinal(DateOf(LocalNow(now, TickZone(users[user_id].timezone))))

\* the with-work variant of a reminder, or its base time
WithWorkTime(reminder) ==
    IF reminder.weekend_time_with_work # NoText
    THEN reminder.weekend_time_with_work ELSE reminder.time

\* the step is an answer to the q-th question in the chat
AnswersQuestion(q) == ev'.op = "work_status" /\ questions' = RemoveAt(questions, q)

\* C20: the date keys align.  A question asked on the owner's local date T-1
\* is created and sent under the date T; the answer is stored under the date
\* the question carries, with responded = 1, and touches no row of another
\* key; and the scheduler resolving on a weekend date T takes the with-work
\* variant exactly when the row stored under T is an answer of yes, while on
\* a date that is not a weekend day it resolves without any work status.
C20_DateKeysAlign ==
    [][/\ ev'.op \in {"question_created", "question"}
             => /\ ToOrdinal(ev'.date) = LocalDay(QuestionReminder.user_id) + 1
                /\ ev'.op = "question_created"
                      => weekend_work_status'[Len(weekend_work_status')].target_date
                             = ev'.date
                /\ ev'.sent => questions'[Len(questions')].target_date = ev'.date
       /\ \A q \in 1..Len(questions) :
             AnswersQuestion(q)
                => /\ \E i \in 1..Len(weekend_work_status') :
                         /\ weekend_work_status'[i].reminder_id = questions[q].reminder_id
                         /\ weekend_work_status'[i].target_date = questions[q].target_date
                         /\ weekend_work_status'[i].responded = 1
                         /\ (weekend_work_status'[i].has_work = 1) = ev'.sent
                   /\ \A i \in 1..Len(weekend_work_status) :
                         weekend_work_status[i].target_date # questions[q].target_date
                            => weekend_work_status'[i] = weekend_work_status[i]
       /\ ResolvesWeekend
             => tick'.reminder_time =
                    IF \E i \in Answers(TickReminder.id, TickToday) :
                           weekend_work_status[i].has_work = 1
                    THEN WithWorkTime(TickReminder) ELSE NoWorkTime(TickReminder)
       /\ tick.pc = "eval" /\ Weekday(DateOf(LocalNow(now, TickZone(Head(tick.queue).timezone)))) < 5
             => tick'.pc # "work"]_vars

\* the scheduler has resolved a Saturday's time to the with-work variant on
\* the answer of yes to the question that was asked on the Friday
C20_Witness ==
    /\ tick.pc = "ack"
    /\ Weekday(TickToday) = 5
    /\ tick.reminder_time = TickReminder.weekend_time_with_work
    /\ tick.reminder_time # NoWorkTime(TickReminder)
    /\ \E i \in Answers(TickReminder.id, TickToday) :
          /\ weekend_work_status[i].has_work = 1
          /\ ToOrdinal(DateOf(LocalNow(weekend_work_status[i].asked_at,
                                       TickZone(Head(tick.queue).timezone))))
                 = ToOrdinal(TickToday) - 1

-----------------------------------------------------------------------------
(* The state of a date.  A step of check_reminders that leaves pc "ack" is  *)
(* the acknowledged check of line 1185 and, when it passes, the step that   *)
(* leaves pc "state" is the decision on the row of (reminder, today).       *)

ChecksAcknowledged == tick.pc = "ack" /\ tick' # tick

\* the reminder_states rows of (reminder_id, date)
OwnRows(reminder_id, date) ==
    {i \in 1..Len(reminder_states) :
        /\ reminder_states[i].reminder_id = reminder_id
        /\ reminder_states[i].reminder_date = date}

\* the running iteration of check_reminders is the first one of check_reminders
\* on its local date
FirstRunOfDate == TickTimeOfDay < TickInterval

\* C11: the state of each date is independent.  What check_reminders decides
\* for (reminder, today) follows from the rows of (reminder, today) alone,
\* whatever the rows of other dates say; and on a new date the reminder
\* starts unsent and unacknowledged: the first run of check_reminders on a
\* date finds no row of (reminder, today).
C11_DatesIndependent ==
    [][/\ ChecksAcknowledged
             => (ev'.op = "acknowledged")
                    = (\E i \in OwnRows(TickReminder.id, TickToday) :
                           reminder_states[i].acknowledged = 1)
       /\ Decides
             => Schedules
                    = (\A i \in OwnRows(TickReminder.id, TickToday) :
                           \/ reminder_states[i].last_sent = NULL
                           \/ tick.now - reminder_states[i].last_sent
                                  >= REMINDER_INTERVAL)
       /\ (ChecksAcknowledged \/ Decides) /\ FirstRunOfDate
             => OwnRows(TickReminder.id, TickToday) = {}]_vars

-----------------------------------------------------------------------------
(* Deactivation.                                                            *)

\* the reminder of the request exists and belongs to the user who asks
OwnsReminder(req) ==
    /\ req.reminder_id \in DOMAIN reminders
    /\ reminders[req.reminder_id].user_id = req.user_id

\* C29: deactivating a reminder is a soft delete.  A step of
\* delete_reminder_callback for (user, id) leaves the set of reminder rows as
\* it is, sets active = 0 on the row with that id when the user owns it and
\* changes no field of it otherwise, changes no other reminder row, and
\* leaves every row of reminder_states and of weekend_work_status.
C29_SoftDelete ==
    [][\A req \in todo :
           delete_reminder_callback(req)
               => /\ DOMAIN reminders' = DOMAIN reminders
                  /\ \A id \in DOMAIN reminders :
                         reminders'[id] =
                             IF id = req.reminder_id /\ OwnsReminder(req)
                             THEN [reminders[id] EXCEPT !.active = 0]
                             ELSE reminders[id]
                  /\ reminder_states' = reminder_states
                  /\ weekend_work_status' = weekend_work_status]_vars

\* the owner has deactivated reminder 1 while rows of both tables exist; the
\* other reminder is active
C29_Witness ==
    /\ ev.op = "deleted"
    /\ ev.sent
    /\ ev.reminder_id = 1
    /\ reminders[1].active = 0
    /\ reminders[2].active = 1
    /\ Len(reminder_states) > 0
    /\ Len(weekend_work_status) > 0

-----------------------------------------------------------------------------
(* The timezone of a user.                                                  *)

\* C28: an unknown timezone name is rejected before persisting.  A step of
\* timezone_set_callback whose name is not a known zone leaves the users
\* table as it is, and every timezone stored in the users table is the name
\* of a known zone.
C28_UnknownZoneRejected ==
    [][/\ \A req \in todo :
              timezone_set_callback(req) /\ req.name \notin KnownZones
                  => users' = users
       /\ \A u \in DOMAIN users' : users'[u].timezone \in KnownZones]_vars

\* the reminder has been deactivated
Deactivated(reminder_id) ==
    /\ reminder_id \in DOMAIN reminders
    /\ reminders[reminder_id].active = 0

\* check_reminders hands no job to the job queue for a deactivated reminder
NoDispatchScheduled == Schedules => ~Deactivated(TickReminder.id)

\* check_weekend_work_questions creates and sends no question for one
NoQuestionAsked ==
    ev'.op \in {"question_created", "question"} => ~Deactivated(ev'.reminder_id)

\* send_reminder_message delivers no notification for one
NoNotificationDelivered ==
    ev'.op = "dispatched" /\ ev'.sent => ~Deactivated(ev'.reminder_id)

\* C30: only active reminders are evaluated.  Once a reminder is deactivated,
\* no run of check_reminders schedules a dispatch for it, no run of
\* check_weekend_work_questions creates or sends a work question for it, and
\* no notification for it is delivered.
C30_OnlyActive ==
    [][NoDispatchScheduled /\ NoQuestionAsked /\ NoNotificationDelivered]_vars

-----------------------------------------------------------------------------
(* Failures inside a run of check_reminders.                                *)

\* a storage call of the running check_reminders raises in this step
StorageFails == ev'.op = "raised" /\ ev'.what = "OperationalError"

\* C25: a failure while a tick evaluates one reminder does not stop the loop.
\* When a storage call of check_reminders raises during the iteration of one
\* reminder, the run goes on with the reminders after it, as after a
\* `continue`; the run after the last reminder is over and the next tick runs.
C25_LoopSurvivesFailure == [][StorageFails => tick' = TickContinue]_vars

-----------------------------------------------------------------------------
(* The work question.                                                       *)

\* the time at which the running check_weekend_work_questions started
QuestionRunAt == nextQuestion - QuestionInterval

\* the zone check_weekend_work_questions takes for the owner of the reminder
OwnerZone(reminder_id) == TickZone(users[reminders[reminder_id].user_id].timezone)

\* this step creates the row of a question or sends its prompt
Asks == ev'.op \in {"question_created", "question"}

\* the reminder the question is about is one the dispatcher asks for
AsksEligible ==
    LET r == reminders[ev'.reminder_id]
    IN  /\ r.active = 1
        /\ r.frequency = "daily"
        /\ r.daily_mode = "advanced"
        /\ r.weekend_override = 1

\* the question is about tomorrow on the owner's calendar, a Saturday or Sunday
AsksAboutWeekend ==
    /\ ev'.date = Tomorrow(DateOf(LocalNow(QuestionRunAt, OwnerZone(ev'.reminder_id))))
    /\ Weekday(ev'.date) \in {5, 6}

\* the run started within the 60 seconds from the ask time, owner's local time
AsksInWindow ==
    InAskWindow(LocalNow(QuestionRunAt, OwnerZone(ev'.reminder_id)),
                reminders[ev'.reminder_id].ask_work_time)

\* C21: the question dispatcher creates a question and sends a prompt only for
\* a reminder that is active, daily, advanced and weekend-override enabled,
\* only when tomorrow in the owner's timezone is a Saturday or Sunday, and
\* only in a run whose local time lies in the 60 seconds from the ask time.
C21_AsksOnlyWhenEligible ==
    [][Asks => AsksEligible /\ AsksAboutWeekend /\ AsksInWindow]_vars

\* UNIQUE(reminder_id, target_date) on weekend_work_status
WorkKeyUnique ==
    \A i, j \in 1..Len(weekend_work_status) :
        /\ weekend_work_status[i].reminder_id = weekend_work_status[j].reminder_id
        /\ weekend_work_status[i].target_date = weekend_work_status[j].target_date
        => i = j

\* the running check_weekend_work_questions passes `if existing: continue`
PassesExisting == wtick.pc = "eval" /\ wtick'.pc = "select"

C23_AnsweredOnce ==
    [][\A i \in 1..Len(weekend_work_status) :
           weekend_work_status[i].responded = 1
               => /\ i <= Len(weekend_work_status')
                  /\ weekend_work_status'[i].has_work
                         = weekend_work_status[i].has_work]_vars

-----------------------------------------------------------------------------
(* Delivery.                                                                *)

\* the notification of the job is in the chat with the button of its reminder
Notified(job) ==
    /\ [reminder_id |-> job.reminder_id, date |-> job.today, at |-> now] \in delivered'
    /\ Len(chat) < MaxButtons
          => /\ Len(chat') = Len(chat) + 1
             /\ chat'[Len(chat')] = [chat_id |-> job.user_id,
                                     reminder_id |-> job.reminder_id]

\* without an image, or with a photo that fails to send, the job sends the
\* text: the notification arrives exactly when send_message succeeds
DegradesToText ==
    \A job \in BagToSet(jobs), meme \in BOOLEAN, photo_ok \in BOOLEAN, text_ok \in BOOLEAN :
        /\ send_reminder_message_deliver(job)
        /\ send_reminder_message_send(job, meme, photo_ok, text_ok)
        /\ ~(meme /\ photo_ok)
        => /\ ev'.sent = text_ok
           /\ ev'.diff = (IF meme THEN 2 ELSE 1)
           /\ text_ok => Notified(job)

\* the job has passed `if await is_reminder_acknowledged(...): return`
PastAcknowledgedCheck(job) == job.pc \in {"select", "write", "deliver"}

\* a job past the acknowledged check ends only after one or two send attempts
SendsOnceOrTwice ==
    \A job \in BagToSet(jobs) :
        PastAcknowledgedCheck(job) /\ jobs' = Finish(job)
            => ev'.op = "dispatched" /\ ev'.diff \in {1, 2}

\* C26: when the image is unavailable or sending it fails, the dispatch
\* degrades to a text notification with the acknowledgement button of the
\* same reminder; and a dispatch that passes the acknowledged check makes at
\* least one and at most two send attempts, never zero.
C26_DegradesAndAttempts == [][DegradesToText /\ SendsOnceOrTwice]_vars

\* the delivery of a job fails in this step: neither send reached the chat
DeliveryFails == ev'.op = "dispatched" /\ ~ev'.sent

\* C24: a failure to deliver the notification of one reminder does not
\* prevent the evaluation and dispatch of the other reminders of the tick.
\* The step in which a job's delivery fails ends that job alone: the running
\* check_reminders keeps its place in its list, every other job stays in the
\* job queue, and the schedule of the ticks is untouched.
C24_FailureIsolated ==
    [][DeliveryFails
          => /\ tick' = tick
             /\ \E job \in BagToSet(jobs) :
                    /\ job.pc = "deliver"
                    /\ job.reminder_id = ev'.reminder_id
                    /\ jobs' = jobs (-) SetToBag({job})
             /\ UNCHANGED <<nextTick, ticks, reminders>>]_vars

\* in the last run of check_reminders the job of reminder 1 ran and failed to
\* deliver before the run reached reminder 2; the run then schedules the
\* dispatch of reminder 2
C24_Witness ==
    /\ ev.op = "decided"
    /\ ev.reminder_id = 2
    /\ ev.sent
    /\ \E job \in BagToSet(jobs) : job.reminder_id = 2
    /\ \A job \in BagToSet(jobs) : job.reminder_id # 1
    /\ \E i \in 1..Len(reminder_states) : reminder_states[i].reminder_id = 1
    /\ \A d \in delivered : d.reminder_id # 1
    /\ chat = <<>>

-----------------------------------------------------------------------------
(* The conversation that adds a reminder.                                   *)

\* the states of the conversation that collect a time
TimeStates ==
    {WAITING_FOR_TIME, WAITING_FOR_EVEN_TIME, WAITING_FOR_ODD_TIME,
     WAITING_FOR_WEEKEND_NO_WORK_TIME, WAITING_FOR_WEEKEND_WITH_WORK_TIME}

\* the text is a time of day, hours 0-23 and minutes 0-59, written HH:MM or
\* H:MM, possibly with blanks around it
IsTime(text) ==
    LET parts == Split(Strip(text))
    IN  /\ Len(parts) = 2
        /\ Len(parts[1]) \in {1, 2} /\ IntOk(parts[1]) /\ ToInt(parts[1]) <= 23
        /\ Len(parts[2]) = 2 /\ IntOk(parts[2]) /\ ToInt(parts[2]) <= 59

\* this step is the bot handling the message `text` of the user
Handles(text) ==
    \/ start(text)
    \/ menu_button_handler(text)
    \/ receive_time(text)
    \/ receive_even_time(text)
    \/ receive_odd_time(text)
    \/ receive_weekend_no_work_time(text)
    \/ receive_weekend_with_work_time(text)

\* C27: in every state of the conversation that collects a time, a text that
\* is not a valid HH:MM time keeps the conversation in the same state and
\* mutates nothing: no reminder is created and the data collected so far is
\* unchanged.
C27_InvalidTimeKeepsState ==
    [][\A text \in WizardTexts :
           wizard.state \in TimeStates /\ Handles(text) /\ ~IsTime(text)
               => wizard' = wizard /\ reminders' = reminders]_vars

\* a text that is no time was rejected in the last step of the advanced
\* reminder, with the three earlier times collected and no reminder stored
C27_Witness ==
    /\ ev.op = "invalid_time"
    /\ wizard.state = WAITING_FOR_WEEKEND_WITH_WORK_TIME
    /\ {"even_day_time", "odd_day_time", "weekend_time_no_work"}
           \subseteq DOMAIN wizard.reminder
    /\ DOMAIN reminders = {}

-----------------------------------------------------------------------------
(* The order of the send and of the record inside one dispatch.             *)

\* the sent transition of (reminder_id, date) is on record: a row with
\* last_sent set
Recorded(reminder_id, date) ==
    \E i \in StateRows(reminder_states, reminder_id, date) :
        reminder_states[i].last_sent # NULL

\* a notification of (reminder_id, date) has reached the chat
HandedOver(reminder_id, date) ==
    \E d \in delivered : SameKey(d, reminder_id, date)

\* C31: within one dispatch the notification is sent first and the sent
\* transition is recorded after it: a reminder_states row with last_sent set
\* exists for (reminder, date) only if a notification for (reminder, date)
\* has been sent.
C31_SentBeforeRecorded ==
    \A i \in 1..Len(reminder_states) :
        reminder_states[i].last_sent # NULL
            => HandedOver(reminder_states[i].reminder_id,
                          reminder_states[i].reminder_date)

-----------------------------------------------------------------------------
(* How a date becomes acknowledged.                                         *)

\* this step is a press of the button of a notification
PressesButton == \E m \in 1..Len(chat) : took_pills_callback(m)

\* the row j of the table after the step is acknowledged and was not an
\* acknowledged row before the step
BecomesAcknowledged(j) ==
    /\ reminder_states'[j].acknowledged = 1
    /\ ~Acknowledged(reminder_states'[j].reminder_id, reminder_states'[j].reminder_date)

\* C32: the acknowledged state is entered exclusively through the explicit
\* confirmation of the user: a step in which a reminder_states row becomes
\* acknowledged is a press of the button of a notification; no run of
\* check_reminders, dispatch job, run of check_weekend_work_questions,
\* work-status answer, timezone change or deactivation sets the flag.
C32_AcknowledgedOnlyByPress ==
    [][(\E j \in 1..Len(reminder_states') : BecomesAcknowledged(j))
          => PressesButton]_vars

\* the user has acknowledged the date of a reminder by the button, after the
\* reminder was deactivated
C32_Witness ==
    /\ ev.op = "took_pills"
    /\ ev.sent
    /\ Acknowledged(ev.reminder_id, ev.date)
    /\ reminders[ev.reminder_id].active = 0

-----------------------------------------------------------------------------
(* Re-notification as a progress property.  The job queue of the            *)
(* Application runs every job that is due: the repeating check_reminders    *)
(* and check_weekend_work_questions at their instants, each coroutine up to *)
(* its end, each send_reminder_message job.  The user is under no           *)
(* obligation to press a button, and the clock is read at no particular     *)
(* second.                                                                  *)

\* a simple daily reminder whose time has passed when the bot starts: at
\* 20:54 for a user in UTC, whose date lasts through the run, and at 23:50
\* for a user in Moscow, whose date ends with the last run
LiveInit ==
    /\ Init
    /\ \/ users[1].timezone = "UTC" /\ reminders[1] = DailyRow(1, 1, HHMM(20, 54))
       \/ users[1].timezone = "Europe/Moscow"
              /\ reminders[1] = DailyRow(1, 1, HHMM(23, 50))

Fairness ==
    /\ WF_vars(AdvanceToTick)
    /\ WF_vars(AdvanceToQuestion)
    /\ WF_vars(check_reminders_start)
    /\ WF_vars(check_reminders_eval)
    /\ WF_vars(check_reminders_ack)
    /\ WF_vars(check_reminders_state)
    /\ WF_vars(check_weekend_work_questions_start)
    /\ WF_vars(\E job \in BagToSet(jobs) : send_reminder_message_tz(job))
    /\ WF_vars(\E job \in BagToSet(jobs) : send_reminder_message_ack(job))
    /\ WF_vars(\E job \in BagToSet(jobs) : send_reminder_message_select(job))
    /\ WF_vars(\E job \in BagToSet(jobs) : send_reminder_message_write(job))
    /\ WF_vars(\E job \in BagToSet(jobs) : send_reminder_message_deliver(job))

LiveSpec == LiveInit /\ [][PairNext]_vars /\ Fairness

\* the instant of the k-th run of check_reminders
TickAt(k) == StartTime + FirstTick + (k - 1) * TickInterval

\* a run of check_reminders is still to start, REMINDER_INTERVAL or more
\* after last_sent, on the date of the row in the zone of the owner
TickRemains(row) ==
    \E k \in (ticks + 1)..MaxTicks :
        /\ TickAt(k) >= row.last_sent + REMINDER_INTERVAL
        /\ DateOf(LocalNow(TickAt(k), TickZone(users[row.user_id].timezone)))
               = row.reminder_date

\* a dispatch of (reminder, D) is over and the date is left sent and not
\* acknowledged, the reminder active, with a run of check_reminders on D to
\* come once the interval has passed
AwaitsRenotification ==
    /\ tick.pc = "idle"
    /\ jobs = EmptyBag
    /\ \E i \in 1..Len(reminder_states) :
          /\ reminder_states[i].last_sent # NULL
          /\ reminder_states[i].acknowledged = 0
          /\ reminders[reminder_states[i].reminder_id].active = 1
          /\ TickRemains(reminder_states[i])

\* check_reminders has just scheduled a dispatch on a row that was sent
Redispatched == ev.op = "decided" /\ ev.sent /\ ev.diff # NULL

\* the user has acknowledged a date
SomeAcknowledged ==
    \E i \in 1..Len(reminder_states) : reminder_states[i].acknowledged = 1

\* C33: re-notification persists until acknowledgement.  When a dispatch of
\* (reminder, D) is over, D is sent and not acknowledged, the reminder is
\* active and runs of check_reminders on D are still to come after the
\* interval, check_reminders eventually schedules another dispatch of the
\* reminder, unless the user acknowledges first.
C33_RenotifiedUntilAcknowledged ==
    AwaitsRenotification ~> (Redispatched \/ SomeAcknowledged)

\* check_reminders has scheduled another dispatch more than REMINDER_INTERVAL
\* after the last one, the earlier notification still unpressed in the chat
C33_Witness ==
    /\ ev.op = "decided"
    /\ ev.sent
    /\ ev.diff # NULL
    /\ ev.diff > REMINDER_INTERVAL
    /\ Len(chat) > 0
    /\ ~SomeAcknowledged

-----------------------------------------------------------------------------
(* The evening of the work question.  The bot starts at 20:54:44 UTC, so    *)
(* check_weekend_work_questions runs at second 59 of every minute; the user  *)
(* lives in Sao Paulo, where the ask time 18:00 of Friday is 21:00:00 UTC    *)
(* and the run of 21:00:59 UTC is the one the job queue starts inside the    *)
(* ask window.  A run reads the clock for a reminder (line 1041) after it    *)
(* has awaited the storage (line 1028).  The reminder is not due during the  *)
(* run, so AskNext lists the steps such a run can take.                      *)

\* the second at which the bot starts
AskStart == StartTime + 54

AskReminders ==
    [id \in {1} |->
        AdvancedRow(1, 1, HHMM(0, 1), HHMM(23, 59), 1, HHMM(10, 0), HHMM(9, 0))]

AskInit ==
    /\ now = AskStart
    /\ nextTick = AskStart + FirstTick
    /\ nextQuestion = AskStart + FirstQuestion
    /\ ticks = 0
    /\ users = [u \in {1} |-> [timezone |-> "America/Sao_Paulo"]]
    /\ reminders = AskReminders
    /\ reminder_states = <<>>
    /\ weekend_work_status = <<>>
    /\ questions = <<>>
    /\ tick = IdleTick
    /\ wtick = IdleQuestions
    /\ jobs = EmptyBag
    /\ chat = <<>>
    /\ delivered = {}
    /\ ackAt = {}
    /\ ev = NoEv
    /\ probe = NoProbe
    /\ todo = {}
    /\ wizard = NoWizard

\* line 1028: the await of get_advanced_daily_reminders_needing_questions
\* takes time, so line 1041 reads the clock later than the instant at which
\* the job queue started the run
check_weekend_work_questions_await ==
    /\ wtick.pc = "eval"
    /\ now < nextQuestion - QuestionInterval + MaxLag
    /\ now' = now + 1
    /\ ev' = NoEv
    /\ UNCHANGED <<probe, todo, wizard, nextQuestion, wtick, questions, nextTick,
                   ticks, users, reminders, reminder_states, weekend_work_status,
                   tick, jobs, chat, delivered, ackAt>>

AskNext ==
    \/ AdvanceSecond
    \/ AdvanceToTick
    \/ AdvanceToQuestion
    \/ check_reminders_start
    \/ check_reminders_eval
    \/ check_reminders_ack
    \/ check_weekend_work_questions_start
    \/ check_weekend_work_questions_await
    \/ check_weekend_work_questions_eval
    \/ check_weekend_work_questions_select
    \/ check_weekend_work_questions_insert
    \/ check_weekend_work_questions_send
    \/ \E q \in 1..Len(questions), has_work \in {0, 1} : work_status_callback(q, has_work)

AskSpec == AskInit /\ [][AskNext]_vars

\* the owner's local time at the instant t, and the ask time of the reminder
\* on that local date
OwnerLocal(id, t) == LocalNow(t, OwnerZone(id))

AskTimeAt(id, t) ==
    LocalizeToday(OwnerLocal(id, t), ParseHour(reminders[id].ask_work_time),
                  ParseMinute(reminders[id].ask_work_time))

\* the reminder is one check_weekend_work_questions asks about
Eligible(id) ==
    /\ reminders[id].active = 1
    /\ reminders[id].frequency = "daily"
    /\ reminders[id].daily_mode = "advanced"
    /\ reminders[id].weekend_override = 1

\* the run that the job queue started inside the ask window of this evening
\* is over: the bot was running when the window opened, the last run started
\* at or after the ask time, and it has ended
WindowRunOver(id) ==
    /\ wtick.pc = "idle"
    /\ nextQuestion > AskStart + FirstQuestion
    /\ OwnerLocal(id, AskStart + FirstQuestion) <= AskTimeAt(id, QuestionRunAt)
    /\ OwnerLocal(id, QuestionRunAt) >= AskTimeAt(id, QuestionRunAt)
    /\ Weekday(Tomorrow(DateOf(OwnerLocal(id, QuestionRunAt)))) \in {5, 6}

\* C34: when check_weekend_work_questions runs every 60 seconds, then for
\* every eligible reminder, on an evening whose tomorrow is a Saturday or a
\* Sunday, one run falls in the ask window and creates the question: once
\* that run is over, the weekend_work_status row of (reminder, tomorrow)
\* exists.
C34_AskedThatEvening ==
    \A id \in DOMAIN reminders :
        Eligible(id) /\ WindowRunOver(id)
            => WorkRows(weekend_work_status, id,
                        Tomorrow(DateOf(OwnerLocal(id, QuestionRunAt)))) # {}

\* the conversation is in one of its states
InConversation == wizard.state # END

\* this step stores a reminder as the last step of a path of the
\* conversation: a valid time typed where the conversation waits for the
\* time of a simple reminder or for the last time of an advanced one, or
\* the press of weekend_no
CompletesPath ==
    \/ \E text \in WizardTexts :
          /\ IsTime(text)
          /\ receive_time(text) \/ receive_weekend_with_work_time(text)
    \/ select_weekend_override_callback("no")

-----------------------------------------------------------------------------
(* The date of a dispatch.                                                  *)

\* the number of the owner's local day at the instant t, EpochDate being
\* day 0, and the number of a date
OwnerDay(user_id, t) ==
    (t + UtcOffset(TickZone(users[user_id].timezone))) \div SecondsPerDay

DayOf(date) == ToOrdinal(date) - ToOrdinal(EpochDate)

\* the job records or sends its notification in this step
Dispatches(job) ==
    send_reminder_message_write(job) \/ send_reminder_message_deliver(job)

\* the row of (reminder_id, date) is sent and not acknowledged
LeftSent(reminder_id, date) ==
    \E i \in StateRows(reminder_states, reminder_id, date) :
        /\ reminder_states[i].last_sent # NULL
        /\ reminder_states[i].acknowledged = 0

-----------------------------------------------------------------------------
(* The date of an acknowledgement.                                          *)

\* C37: a press of the acknowledgement button is applied to the rows of
\* (reminder, D') where D' is the local date of the pressing user at the
\* moment of the press: these rows become acknowledged and every other row,
\* the one of the date of the notification included, is left as it is, so
\* that a press changes nothing when (reminder, D') has no row.
C37_PressAppliesToLocalDate ==
    [][\A m \in 1..Len(chat) :
          took_pills_callback(m)
             => LET r    == chat[m].reminder_id
                    user == chat[m].chat_id
                    applies(j) ==
                        /\ r \in DOMAIN reminders
                        /\ users[user].timezone \in KnownZones
                        /\ reminder_states[j].reminder_id = r
                        /\ DayOf(reminder_states[j].reminder_date) = OwnerDay(user, now)
                IN  /\ Len(reminder_states') = Len(reminder_states)
                    /\ \A j \in 1..Len(reminder_states) :
                          reminder_states'[j] =
                             IF applies(j)
                             THEN [reminder_states[j] EXCEPT !.acknowledged = 1]
                             ELSE reminder_states[j]]_vars

\* the button of a notification sent on Friday was pressed after local
\* midnight: Saturday has no row, and the row of Friday is still sent and
\* not acknowledged
C37_Witness ==
    /\ ev.op = "took_pills"
    /\ ~ev.sent
    /\ DayOf(ev.date) = 1
    /\ StateRows(reminder_states, ev.reminder_id, ev.date) = {}
    /\ LeftSent(ev.reminder_id, EpochDate)
    /\ \E d \in delivered : d.reminder_id = ev.reminder_id /\ d.date = EpochDate

-----------------------------------------------------------------------------
(* The due time of a weekend date after its first dispatch.                 *)

\* the bot starts ten seconds before 00:00 UTC of Saturday, so the runs of
\* check_reminders fall on 00:00:00, 00:01:00, ... of Saturday
DueStart == SecondsPerDay - FirstTick

\* an advanced daily reminder: 00:00 on a weekend without work, 00:04 on a
\* weekend with work
DueReminders ==
    [id \in {1} |->
        AdvancedRow(1, 1, HHMM(0, 1), HHMM(23, 59), 1, HHMM(0, 0), HHMM(0, 4))]

\* the question about Saturday was asked on Friday at 18:00 and is not
\* answered yet
DueInit ==
    /\ now = DueStart
    /\ nextTick = DueStart + FirstTick
    /\ nextQuestion = DueStart + FirstQuestion
    /\ ticks = 0
    /\ users = [u \in {1} |-> [timezone |-> "UTC"]]
    /\ reminders = DueReminders
    /\ reminder_states = <<>>
    /\ weekend_work_status =
          <<QuestionRow(1, 1, NextDay(EpochDate), AskedBefore(reminders[1], 1))>>
    /\ questions = <<QuestionMessage(1, 1, NextDay(EpochDate))>>
    /\ tick = IdleTick
    /\ wtick = IdleQuestions
    /\ jobs = EmptyBag
    /\ chat = <<>>
    /\ delivered = {}
    /\ ackAt = {}
    /\ ev = NoEv
    /\ probe = NoProbe
    /\ todo = {}
    /\ wizard = NoWizard

\* the runs of check_weekend_work_questions are minutes after midnight and
\* outside every ask window, so they end in their second step
DueNext ==
    \/ AdvanceSecond
    \/ AdvanceToTick
    \/ AdvanceToQuestion
    \/ check_reminders_start
    \/ check_reminders_eval
    \/ check_reminders_work
    \/ check_reminders_ack
    \/ check_reminders_state
    \/ \E job \in BagToSet(jobs) : send_reminder_message_tz(job)
    \/ \E job \in BagToSet(jobs) : send_reminder_message_ack(job)
    \/ \E job \in BagToSet(jobs) : send_reminder_message_select(job)
    \/ \E job \in BagToSet(jobs) : send_reminder_message_write(job)
    \/ \E job \in BagToSet(jobs) : send_reminder_message_deliver(job)
    \/ \E m \in 1..Len(chat) : took_pills_callback(m)
    \/ check_weekend_work_questions_start
    \/ check_weekend_work_questions_eval
    \/ \E q \in 1..Len(questions), has_work \in {0, 1} : work_status_callback(q, has_work)

DueSpec == DueInit /\ [][DueNext]_vars

\* the run of check_reminders finds the clock before the resolved time
TooEarly == tick.pc = "ack" /\ ev'.op = "too_early"

\* C38: the due time of a (reminder, date) does not move later once a
\* dispatch has occurred: after the first notification of (reminder, D) no
\* run of check_reminders on D finds the clock before the resolved time,
\* whatever work-status answer for D is recorded in between.
C38_DueTimeDoesNotMoveLater ==
    [][TooEarly => ~HandedOver(ev'.reminder_id, ev'.date)]_vars

-----------------------------------------------------------------------------
(* Button presses of a user who does not own the reminder.                  *)

\* a callback query with the data took_pills_<reminder_id>, or with the data
\* work_yes_<reminder_id>_<date> or work_no_<reminder_id>_<date> for the
\* Saturday, that user_id sends.  The data of a query need not come from a
\* button this bot sent to that user
TookRequest(user_id, reminder_id) ==
    [op |-> "took", user_id |-> user_id, name |-> "", reminder_id |-> reminder_id]

WorkRequest(user_id, reminder_id, has_work) ==
    [op |-> IF has_work = 1 THEN "work_yes" ELSE "work_no", user_id |-> user_id,
     name |-> "", reminder_id |-> reminder_id]

PressRequests ==
    {TookRequest(u, 1) : u \in Users}
        \cup {WorkRequest(u, 1, has_work) : u \in Users, has_work \in {0, 1}}

\* src/bot.py: took_pills_callback on such a query.  The handler is
\* registered for the pattern ^took_pills_\d+$ and takes the reminder from the data and
\* the user from query.from_user
took_pills_callback_query(req) ==
    /\ req.op = "took"
    /\ todo' = todo \ {req}
    /\ LET user_id     == req.user_id
           reminder_id == req.reminder_id
           tz          == get_user_timezone(users, user_id)
           today       == DateOf(LocalNow(now, tz))
           rows        == StateRows(reminder_states, reminder_id, today)
       IN  /\ users' = get_or_create_user(users, user_id)
           /\ IF reminder_id \notin DOMAIN reminders
              THEN /\ UNCHANGED <<reminder_states, ackAt>>
                   /\ ev' = Ev("not_found", "", reminder_id, NoDate, FALSE, NULL)
              ELSE IF tz \notin KnownZones
              THEN /\ UNCHANGED <<reminder_states, ackAt>>
                   /\ ev' = Raised("UnknownTimeZoneError", reminder_id, NoDate)
              ELSE /\ reminder_states' =
                          acknowledge_reminder(reminder_states, reminder_id, today)
                   /\ ackAt' =
                          IF rows # {} /\ ~\E a \in ackAt : a.reminder_id = reminder_id
                                                           /\ a.date = today
                          THEN ackAt \cup {[reminder_id |-> reminder_id,
                                            date |-> today, at |-> now]}
                          ELSE ackAt
                   /\ ev' = Ev("took_pills", "", reminder_id, today, rows # {}, NULL)
    /\ UNCHANGED <<probe, wizard, nextQuestion, wtick, questions, now, nextTick,
                   ticks, reminders, weekend_work_status, tick, jobs, chat, delivered>>

\* src/bot.py: work_status_callback on such a query
work_status_callback_query(req) ==
    /\ req.op \in {"work_yes", "work_no"}
    /\ todo' = todo \ {req}
    /\ LET has_work == IF req.op = "work_yes" THEN 1 ELSE 0
       IN  /\ weekend_work_status' =
                  set_weekend_work_status(weekend_work_status, req.user_id,
                                          req.reminder_id, NextDay(EpochDate),
                                          has_work, now)
           /\ ev' = Ev("work_status", "", req.reminder_id, NextDay(EpochDate),
                       has_work = 1, NULL)
    /\ UNCHANGED <<probe, wizard, nextQuestion, wtick, questions, now, nextTick,
                   ticks, users, reminders, reminder_states, tick, jobs, chat,
                   delivered, ackAt>>

\* user 1 has a daily reminder at 21:00 UTC; user 2 is not known to the bot
PressReminders == [id \in {1} |-> DailyRow(1, 1, HHMM(21, 0))]

\* the runs differ in the queries the users send: at most MaxRequests
PressInit ==
    /\ now = StartTime
    /\ nextTick = StartTime + FirstTick
    /\ nextQuestion = StartTime + FirstQuestion
    /\ ticks = 0
    /\ users = [u \in {1} |-> [timezone |-> "UTC"]]
    /\ reminders = PressReminders
    /\ reminder_states = <<>>
    /\ weekend_work_status = <<>>
    /\ questions = <<>>
    /\ tick = IdleTick
    /\ wtick = IdleQuestions
    /\ jobs = EmptyBag
    /\ chat = <<>>
    /\ delivered = {}
    /\ ackAt = {}
    /\ ev = NoEv
    /\ probe = NoProbe
    /\ \E plan \in SUBSET PressRequests :
          Cardinality(plan) <= MaxRequests /\ todo = plan
    /\ wizard = NoWizard

PressNext ==
    \/ AdvanceSecond
    \/ AdvanceToTick
    \/ AdvanceToQuestion
    \/ check_reminders_start
    \/ check_reminders_eval
    \/ check_reminders_ack
    \/ check_reminders_state
    \/ \E job \in BagToSet(jobs) : send_reminder_message_tz(job)
    \/ \E job \in BagToSet(jobs) : send_reminder_message_ack(job)
    \/ \E job \in BagToSet(jobs) : send_reminder_message_select(job)
    \/ \E job \in BagToSet(jobs) : send_reminder_message_write(job)
    \/ \E job \in BagToSet(jobs) : send_reminder_message_deliver(job)
    \/ \E m \in 1..Len(chat) : took_pills_callback(m)
    \/ check_weekend_work_questions_start
    \/ \E req \in todo : took_pills_callback_query(req)
    \/ \E req \in todo : work_status_callback_query(req)

PressSpec == PressInit /\ [][PressNext]_vars

\* user_id owns the reminder
Owns(user_id, reminder_id) ==
    /\ reminder_id \in DOMAIN reminders
    /\ reminders[reminder_id].user_id = user_id

\* the step changes a row of reminder_states or of weekend_work_status
ChangesRows ==
    \/ reminder_states' # reminder_states
    \/ weekend_work_status' # weekend_work_status

\* C39: a button press changes state only of reminders its sender owns: an
\* acknowledgement or a work-status answer that user U sends with reminder
\* id r changes a row of reminder_states or of weekend_work_status only when
\* U owns r.
C39_PressChangesOwnOnly ==
    [][\A req \in todo :
          (took_pills_callback_query(req) \/ work_status_callback_query(req))
             /\ ChangesRows
          => Owns(req.user_id, req.reminder_id)]_vars

-----------------------------------------------------------------------------
(* The reminders the conversation stores.                                   *)

\* the columns the frequency and the mode of the row need are set
WellFormed(reminder) ==
    /\ reminder.frequency \in {"daily", "weekly", "monthly"}
    /\ reminder.frequency = "weekly" => reminder.day_of_week \in 0..6
    /\ reminder.frequency = "monthly" =>
          /\ reminder.day_of_month \in 1..31
          /\ reminder.month_fallback \in {"last_day", "skip"}
    /\ reminder.frequency = "daily" /\ reminder.daily_mode = "advanced" =>
          /\ IsTime(reminder.even_day_time)
          /\ IsTime(reminder.odd_day_time)
    /\ reminder.weekend_override # 0 =>
          /\ IsTime(reminder.weekend_time_no_work)
          /\ IsTime(reminder.weekend_time_with_work)

\* C40: every reminder the conversation creates is well formed: a weekly
\* reminder has its day of the week, a monthly one its day of the month and
\* a fallback policy, an advanced daily one its even-day and odd-day times,
\* and one with the weekend override both weekend times, whatever path led
\* to it, the paths through back_to_frequency included.
C40_CreatedWellFormed ==
    \A id \in DOMAIN reminders : WellFormed(reminders[id])

\* the conversation has just stored an advanced reminder with the weekend
\* override
C40_Witness ==
    /\ ev.op = "added"
    /\ wizard.state = END
    /\ ev.reminder_id \in DOMAIN reminders
    /\ reminders[ev.reminder_id].daily_mode = "advanced"
    /\ reminders[ev.reminder_id].weekend_override = 1
    /\ IsTime(reminders[ev.reminder_id].weekend_time_with_work)

=============================================================================
